---- MODULE Spec2Model ----
(***************************************************************************)
(* Model of the signal-driven position simulator (src/src/backtester.py)   *)
(* and of the commission calculator it calls (src/src/commission.py,       *)
(* src/src/utils.py).                                                      *)
(*                                                                         *)
(* Python floats are modelled as exact rationals <<n, d>> with d > 0 in    *)
(* lowest terms; NaN is the pair <<0, 0>>.  Timestamps are whole hours     *)
(* since an epoch; an ISO date string is the record of its date and hour.  *)
(***************************************************************************)
EXTENDS Integers, Sequences, FiniteSets, TLC

\* ------------------------------------------------------------------ bounds
\* Largest len(df_with_signals) of a run.
MaxBars == 4
\* Closing prices are drawn from 1..MaxPrice.
MaxPrice == 2
\* Largest principal handed to the calculator directly, in hundreds.
MaxPrincipal == 2

\* ------------------------------------------------------- float arithmetic
RAbsInt(n) == IF n < 0 THEN -n ELSE n

RECURSIVE GCD(_, _)
GCD(a, b) == IF b = 0 THEN a ELSE GCD(b, a % b)

Rat(n, d) ==
    LET s == IF d < 0 THEN -1 ELSE 1
        g == GCD(RAbsInt(n), RAbsInt(d))
    IN  IF n = 0 THEN <<0, 1>> ELSE <<(s * n) \div g, (s * d) \div g>>

RInt(n) == <<n, 1>>
RZero == <<0, 1>>
NaN == <<0, 0>>

\* Sums go through the least common denominator and products are reduced
\* crosswise first, so that intermediate values stay small.
RAdd(x, y) ==
    LET g == GCD(x[2], y[2])
    IN  Rat(x[1] * (y[2] \div g) + y[1] * (x[2] \div g), (x[2] \div g) * y[2])
RNeg(x) == <<-x[1], x[2]>>
RSub(x, y) == RAdd(x, RNeg(y))
RMul(x, y) ==
    LET a == Rat(x[1], y[2])
        b == Rat(y[1], x[2])
    IN  Rat(a[1] * b[1], a[2] * b[2])
RDiv(x, y) == RMul(x, Rat(y[2], y[1]))
RAbs(x) == <<RAbsInt(x[1]), x[2]>>
RLt(x, y) == RSub(x, y)[1] < 0
RLe(x, y) == RSub(x, y)[1] <= 0
RMax(x, y) == IF RLt(x, y) THEN y ELSE x

\* round(x, 2): nearest multiple of 1/100, ties to the even multiple.
Round2(x) ==
    LET y == RMul(RInt(100), x)
        f == y[1] \div y[2]
        r == y[1] % y[2]
        up == \/ 2 * r > y[2]
              \/ (2 * r = y[2] /\ f % 2 = 1)
    IN  Rat(IF up THEN f + 1 ELSE f, 100)

\* ------------------------------------------------------------ dictionaries
\* A dict is a function on its key set; the empty dict is <<>>.
EmptyDict == <<>>
DictGet(d, k, default) == IF k \in DOMAIN d THEN d[k] ELSE default
DictUpdate(d, e) == e @@ d
DictDel(d, k) == [x \in (DOMAIN d) \ {k} |-> d[x]]

\* -------------------------------------------------------------- constants
SIGNAL == {"NO_ACTION", "BUY_ENTRY", "BUY_EXIT", "SELL_ENTRY", "SELL_EXIT"}
POSITION == {"NOT_HELD", "BUY", "SELL"}
TradeSide == {"BUY", "SELL"}
AssetType == {"stocks", "options", "currency", "crypto"}
HoldingType == {"DELIVERY", "INTRADAY", "UNKNOWN"}

\* TradeSide(Enum).value
TradeSideValue(side) == IF side = "BUY" THEN 1 ELSE 2

\* ------------------------------------------------------------- timestamps
NoDate == [kind |-> "none", date |-> 0, hour |-> 0]
\* pd.Timestamp.isoformat(): the date part and the time-of-day part.
isoformat(ts) == [kind |-> "iso", date |-> ts \div 24, hour |-> ts % 24]
\* datetime.fromisoformat(): back to hours since the epoch.
fromisoformat(s) == s.date * 24 + s.hour

\* ---------------------------------------------------------- fee schedule
\* None, as returned by dict.get for an absent key.
None == "<None>"

\* The module-level MASTER_FEE_SCHEDULE handed to CommissionCalculator:
\* broker -> {inherits_from?, asset -> {broker: {...}, regulatory: {...}}}.
\* backtester.py reads this name without defining or importing it; the
\* document below is a sample schedule of the documented shape, with rates
\* large enough that fees and their rounding show at a capital of 100.
MASTER_FEE_SCHEDULE ==
    [base |->
        [stocks |->
            [broker |-> [rate_buy |-> <<1, 200>>, rate_sell |-> <<1, 200>>,
                         const_buy |-> <<0, 1>>, const_sell |-> <<0, 1>>],
             regulatory |-> [etc_rate |-> <<3, 1000>>, sebi_rate |-> <<1, 1000>>,
                             stamp_duty_rate |-> <<1, 100>>, gst_rate |-> <<18, 100>>,
                             stt_delivery |-> <<1, 100>>, stt_intraday |-> <<1, 400>>]],
         options |->
            [broker |-> [rate_buy |-> <<1, 200>>, rate_sell |-> <<1, 200>>]]],
     zerodha |->
        [inherits_from |-> "base",
         stocks |->
            [broker |-> [rate_buy |-> <<0, 1>>, rate_sell |-> <<0, 1>>],
             regulatory |-> [stt_intraday |-> <<0, 1>>]],
         options |->
            [broker |-> [rate_buy |-> <<0, 1>>]]],
     \* two levels below base; its stocks section names one rate only
     kite |->
        [inherits_from |-> "zerodha",
         stocks |-> [broker |-> [rate_sell |-> <<1, 100>>]]],
     \* keyed by the value of the side (BUY = 1, SELL = 2), the keys that
     \* _calculate_stocks_fees looks up
     flat |->
        [inherits_from |-> "base",
         stocks |->
            [broker |-> [rate_1 |-> <<1, 200>>, rate_2 |-> <<1, 100>>,
                         const_1 |-> <<3, 4>>, const_2 |-> <<3, 4>>,
                         cap_1 |-> <<5, 4>>, cap_2 |-> <<5, 4>>]]],
     orphan |->
        [inherits_from |-> "nobody",
         stocks |-> [broker |-> [rate_buy |-> <<0, 1>>]]]]

\* A schedule without the "base" fragment, whose only broker inherits nothing.
NO_BASE_SCHEDULE ==
    [solo |->
        [stocks |->
            [broker |-> [rate_buy |-> <<1, 200>>, rate_sell |-> <<1, 200>>],
             regulatory |-> [etc_rate |-> <<3, 1000>>]]]]

\* ------------------------------------------------------------- UtilsJson
max_depth == 50

Ok(v) == [ok |-> TRUE, val |-> v, err |-> ""]
Err(msg) == [ok |-> FALSE, val |-> EmptyDict, err |-> msg]

SeqElems(s) == {s[k] : k \in 1..Len(s)}

\* Faulty variant of ChainWalk: a section met twice ends the chain silently
\* instead of raising.
RECURSIVE ChainWalk_LoopEndsChain(_, _, _, _, _)
ChainWalk_LoopEndsChain(config_data, base_key_identifier, chain_ids, current_id, depth) ==
    LET current_section == DictGet(config_data, current_id, EmptyDict)
        parent_id == DictGet(current_section, base_key_identifier, None)
    IN  IF depth + 1 > max_depth THEN Err("exceeded max depth")
        ELSE IF current_id \in SeqElems(SubSeq(chain_ids, 1, Len(chain_ids) - 1))
        THEN Ok(SubSeq(chain_ids, 1, Len(chain_ids) - 1))
        ELSE IF parent_id = None THEN Ok(chain_ids)
        ELSE IF parent_id \notin DOMAIN config_data THEN Err("not found")
        ELSE ChainWalk_LoopEndsChain(config_data, base_key_identifier,
                                     Append(chain_ids, parent_id), parent_id, depth + 1)

\* The while-loop of get_merged_section: walks the parent pointers from
\* current_id; depth is the number of iterations already made.
RECURSIVE ChainWalk(_, _, _, _, _)
ChainWalk(config_data, base_key_identifier, chain_ids, current_id, depth) ==
    LET current_section == DictGet(config_data, current_id, EmptyDict)
        parent_id == DictGet(current_section, base_key_identifier, None)
    IN  IF depth + 1 > max_depth THEN Err("exceeded max depth")
        ELSE IF current_id \in SeqElems(SubSeq(chain_ids, 1, Len(chain_ids) - 1))
        THEN Err("loop detected")
        ELSE IF parent_id = None THEN Ok(chain_ids)
        ELSE IF parent_id \notin DOMAIN config_data THEN Err("not found")
        ELSE ChainWalk(config_data, base_key_identifier,
                       Append(chain_ids, parent_id), parent_id, depth + 1)

\* merged_section.update(config_data[key_id]) over reversed(chain_ids):
\* the last id of the chain (the root) is merged first.
RECURSIVE MergeChain(_, _)
MergeChain(config_data, chain_ids) ==
    IF chain_ids = <<>> THEN EmptyDict
    ELSE DictUpdate(MergeChain(config_data, Tail(chain_ids)),
                    config_data[Head(chain_ids)])

get_merged_section(config_data, derived_key_id, base_key_id, base_key_identifier) ==
    IF derived_key_id \notin DOMAIN config_data THEN Err("not found")
    ELSE IF base_key_id # None
    THEN IF base_key_id \notin DOMAIN config_data THEN Err("not found")
         ELSE Ok(DictUpdate(config_data[base_key_id], config_data[derived_key_id]))
    ELSE IF base_key_identifier # None
    THEN LET walk == ChainWalk(config_data, base_key_identifier,
                               <<derived_key_id>>, derived_key_id, 0)
         IN  IF ~walk.ok THEN walk
             ELSE Ok(DictDel(MergeChain(config_data, walk.val), base_key_identifier))
    ELSE Ok(config_data[derived_key_id])

\* deep_merge on dicts nested `levels` deep: at level 1 every value is a
\* scalar (isinstance(..., dict) is false) and the override value wins.
RECURSIVE DeepMergeAt(_, _, _)
DeepMergeAt(levels, base_dict, override_dict) ==
    [key \in (DOMAIN base_dict) \cup (DOMAIN override_dict) |->
        IF key \notin DOMAIN override_dict THEN base_dict[key]
        ELSE IF key \in DOMAIN base_dict /\ levels > 1
        THEN DeepMergeAt(levels - 1, base_dict[key], override_dict[key])
        ELSE override_dict[key]]

\* Faulty variant of deep_merge: a section of the override replaces the
\* section of the base instead of being merged into it.
deep_merge_Shallow(base_dict, override_dict) == DictUpdate(base_dict, override_dict)

\* An asset config nests two levels: section -> rate name -> number.
deep_merge(base_dict, override_dict) == DeepMergeAt(2, base_dict, override_dict)

\* --------------------------------------------------- CommissionCalculator
\* `not d.get(k)`: the key is absent or maps to an empty dict.
Falsy(d, k) == k \notin DOMAIN d \/ DOMAIN d[k] = {}

\* Faulty variant of _get_effective_fees: the final validation is missing,
\* so an asset without any section resolves to an empty config.
_get_effective_fees_NoValidation(master_schedule, broker_key, asset_type) ==
    LET merged == get_merged_section(master_schedule, broker_key, None, "inherits_from")
    IN  IF ~merged.ok
        THEN IF merged.err = "not found" THEN Err("Broker key not found") ELSE merged
        ELSE IF "base" \notin DOMAIN master_schedule THEN Err("KeyError")
        ELSE LET base_asset_config == DictGet(master_schedule["base"], asset_type, EmptyDict)
                 merged_asset_config == DictGet(merged.val, asset_type, EmptyDict)
             IN  Ok(deep_merge(base_asset_config, merged_asset_config))

_get_effective_fees(master_schedule, broker_key, asset_type) ==
    LET merged == get_merged_section(master_schedule, broker_key, None, "inherits_from")
    IN  IF ~merged.ok
        THEN IF merged.err = "not found" THEN Err("Broker key not found") ELSE merged
        \* self.master_schedule["base"]: a KeyError, which no caller in this
        \* class catches.
        ELSE IF "base" \notin DOMAIN master_schedule THEN Err("KeyError")
        ELSE LET base_asset_config == DictGet(master_schedule["base"], asset_type, EmptyDict)
                 merged_asset_config == DictGet(merged.val, asset_type, EmptyDict)
                 effective_config == deep_merge(base_asset_config, merged_asset_config)
             IN  IF Falsy(effective_config, "broker") /\ Falsy(effective_config, "regulatory")
                 THEN Err("Asset type configuration not found")
                 ELSE Ok(effective_config)

\* Faulty variant of _determine_holding_type: the elapsed time is not
\* looked at, two different calendar dates make a delivery.
_determine_holding_type_DateOnly(buy_datetime, sell_datetime) ==
    IF buy_datetime.kind = "none" \/ sell_datetime.kind = "none" THEN "UNKNOWN"
    ELSE IF buy_datetime.kind # "iso" \/ sell_datetime.kind # "iso" THEN "UNKNOWN"
    ELSE LET buy_dt == fromisoformat(buy_datetime)
             sell_dt == fromisoformat(sell_datetime)
         IN  IF sell_dt <= buy_dt THEN "INTRADAY"
             ELSE IF buy_dt \div 24 = sell_dt \div 24
             THEN "INTRADAY"
             ELSE "DELIVERY"

\* Faulty variant of _determine_holding_type: a timestamp that does not
\* parse is taken for a same-day trade.
_determine_holding_type_MalformedIntraday(buy_datetime, sell_datetime) ==
    IF buy_datetime.kind = "none" \/ sell_datetime.kind = "none" THEN "UNKNOWN"
    ELSE IF buy_datetime.kind # "iso" \/ sell_datetime.kind # "iso" THEN "INTRADAY"
    ELSE LET buy_dt == fromisoformat(buy_datetime)
             sell_dt == fromisoformat(sell_datetime)
         IN  IF sell_dt <= buy_dt THEN "INTRADAY"
             ELSE IF buy_dt \div 24 = sell_dt \div 24 \/ sell_dt - buy_dt < 24
             THEN "INTRADAY"
             ELSE "DELIVERY"

_determine_holding_type(buy_datetime, sell_datetime) ==
    IF buy_datetime.kind = "none" \/ sell_datetime.kind = "none" THEN "UNKNOWN"
    ELSE IF buy_datetime.kind # "iso" \/ sell_datetime.kind # "iso" THEN "UNKNOWN"
    ELSE LET buy_dt == fromisoformat(buy_datetime)
             sell_dt == fromisoformat(sell_datetime)
         IN  IF sell_dt <= buy_dt THEN "INTRADAY"
             ELSE IF buy_dt \div 24 = sell_dt \div 24 \/ sell_dt - buy_dt < 24
             THEN "INTRADAY"
             ELSE "DELIVERY"

\* Faulty variant of _calculate_stocks_fees: the delivery STT is charged on
\* the buy side as well.
_calculate_stocks_fees_SttOnDeliveryBuy(principal_value, trade_side, holding_type, rates) ==
    LET broker_rates == DictGet(rates, "broker", EmptyDict)
        regulatory_rates == DictGet(rates, "regulatory", EmptyDict)
        rate_key == "rate_" \o ToString(TradeSideValue(trade_side))
        const_key == "const_" \o ToString(TradeSideValue(trade_side))
        cap_key == "cap_" \o ToString(TradeSideValue(trade_side))
        percentage_brokerage == RMul(principal_value, DictGet(broker_rates, rate_key, RZero))
        constant_fee == DictGet(broker_rates, const_key, RZero)
        uncapped == RMax(percentage_brokerage, constant_fee)
        brokerage == IF cap_key \in DOMAIN broker_rates /\ RLt(broker_rates[cap_key], uncapped)
                     THEN broker_rates[cap_key] ELSE uncapped
        etc_charges == RMul(principal_value, DictGet(regulatory_rates, "etc_rate", RZero))
        sebi_fee == RMul(principal_value, DictGet(regulatory_rates, "sebi_rate", RZero))
        stamp_duty == IF trade_side = "BUY"
                      THEN RMul(principal_value, DictGet(regulatory_rates, "stamp_duty_rate", RZero))
                      ELSE RZero
        gst_base == RAdd(RAdd(brokerage, etc_charges), sebi_fee)
        gst_tax == RMul(gst_base, DictGet(regulatory_rates, "gst_rate", RZero))
        stt_tax == IF holding_type = "DELIVERY"
                   THEN RMul(principal_value, DictGet(regulatory_rates, "stt_delivery", RZero))
                   ELSE IF holding_type = "INTRADAY"
                   THEN RMul(principal_value, DictGet(regulatory_rates, "stt_intraday", RZero))
                   ELSE RZero
        total_fees == RAdd(RAdd(RAdd(RAdd(RAdd(brokerage, etc_charges), sebi_fee),
                                     stamp_duty), gst_tax), stt_tax)
    IN  [asset |-> "Stocks", side |-> trade_side, holding |-> holding_type,
         principal |-> Round2(principal_value),
         brokerage |-> Round2(brokerage),
         etc |-> Round2(etc_charges),
         sebi |-> Round2(sebi_fee),
         stamp_duty |-> Round2(stamp_duty),
         gst |-> Round2(gst_tax),
         stt |-> Round2(stt_tax),
         total |-> Round2(total_fees)]

\* Faulty variant of _calculate_stocks_fees: a brokerage above the cap is
\* dropped instead of being lowered to the cap.
_calculate_stocks_fees_CapWaives(principal_value, trade_side, holding_type, rates) ==
    LET broker_rates == DictGet(rates, "broker", EmptyDict)
        regulatory_rates == DictGet(rates, "regulatory", EmptyDict)
        rate_key == "rate_" \o ToString(TradeSideValue(trade_side))
        const_key == "const_" \o ToString(TradeSideValue(trade_side))
        cap_key == "cap_" \o ToString(TradeSideValue(trade_side))
        percentage_brokerage == RMul(principal_value, DictGet(broker_rates, rate_key, RZero))
        constant_fee == DictGet(broker_rates, const_key, RZero)
        uncapped == RMax(percentage_brokerage, constant_fee)
        brokerage == IF cap_key \in DOMAIN broker_rates /\ RLt(broker_rates[cap_key], uncapped)
                     THEN RZero ELSE uncapped
        etc_charges == RMul(principal_value, DictGet(regulatory_rates, "etc_rate", RZero))
        sebi_fee == RMul(principal_value, DictGet(regulatory_rates, "sebi_rate", RZero))
        stamp_duty == IF trade_side = "BUY"
                      THEN RMul(principal_value, DictGet(regulatory_rates, "stamp_duty_rate", RZero))
                      ELSE RZero
        gst_base == RAdd(RAdd(brokerage, etc_charges), sebi_fee)
        gst_tax == RMul(gst_base, DictGet(regulatory_rates, "gst_rate", RZero))
        stt_tax == IF holding_type = "DELIVERY" /\ trade_side = "SELL"
                   THEN RMul(principal_value, DictGet(regulatory_rates, "stt_delivery", RZero))
                   ELSE IF holding_type = "INTRADAY"
                   THEN RMul(principal_value, DictGet(regulatory_rates, "stt_intraday", RZero))
                   ELSE RZero
        total_fees == RAdd(RAdd(RAdd(RAdd(RAdd(brokerage, etc_charges), sebi_fee),
                                     stamp_duty), gst_tax), stt_tax)
    IN  [asset |-> "Stocks", side |-> trade_side, holding |-> holding_type,
         principal |-> Round2(principal_value),
         brokerage |-> Round2(brokerage),
         etc |-> Round2(etc_charges),
         sebi |-> Round2(sebi_fee),
         stamp_duty |-> Round2(stamp_duty),
         gst |-> Round2(gst_tax),
         stt |-> Round2(stt_tax),
         total |-> Round2(total_fees)]

_calculate_stocks_fees(principal_value, trade_side, holding_type, rates) ==
    LET broker_rates == DictGet(rates, "broker", EmptyDict)
        regulatory_rates == DictGet(rates, "regulatory", EmptyDict)
        rate_key == "rate_" \o ToString(TradeSideValue(trade_side))
        const_key == "const_" \o ToString(TradeSideValue(trade_side))
        cap_key == "cap_" \o ToString(TradeSideValue(trade_side))
        percentage_brokerage == RMul(principal_value, DictGet(broker_rates, rate_key, RZero))
        constant_fee == DictGet(broker_rates, const_key, RZero)
        uncapped == RMax(percentage_brokerage, constant_fee)
        brokerage == IF cap_key \in DOMAIN broker_rates /\ RLt(broker_rates[cap_key], uncapped)
                     THEN broker_rates[cap_key] ELSE uncapped
        etc_charges == RMul(principal_value, DictGet(regulatory_rates, "etc_rate", RZero))
        sebi_fee == RMul(principal_value, DictGet(regulatory_rates, "sebi_rate", RZero))
        stamp_duty == IF trade_side = "BUY"
                      THEN RMul(principal_value, DictGet(regulatory_rates, "stamp_duty_rate", RZero))
                      ELSE RZero
        gst_base == RAdd(RAdd(brokerage, etc_charges), sebi_fee)
        gst_tax == RMul(gst_base, DictGet(regulatory_rates, "gst_rate", RZero))
        stt_tax == IF holding_type = "DELIVERY" /\ trade_side = "SELL"
                   THEN RMul(principal_value, DictGet(regulatory_rates, "stt_delivery", RZero))
                   ELSE IF holding_type = "INTRADAY"
                   THEN RMul(principal_value, DictGet(regulatory_rates, "stt_intraday", RZero))
                   ELSE RZero
        total_fees == RAdd(RAdd(RAdd(RAdd(RAdd(brokerage, etc_charges), sebi_fee),
                                     stamp_duty), gst_tax), stt_tax)
    IN  [asset |-> "Stocks", side |-> trade_side, holding |-> holding_type,
         principal |-> Round2(principal_value),
         brokerage |-> Round2(brokerage),
         etc |-> Round2(etc_charges),
         sebi |-> Round2(sebi_fee),
         stamp_duty |-> Round2(stamp_duty),
         gst |-> Round2(gst_tax),
         stt |-> Round2(stt_tax),
         total |-> Round2(total_fees)]

\* Faulty variant of calculate_commission_fees: a principal of 0 is priced.
calculate_commission_fees_ZeroAccepted(master_schedule, broker_key, principal_value, trade_side, asset_type, buy_datetime, sell_datetime) ==
    IF RLt(principal_value, RZero) THEN [error |-> "Principal value must be positive."]
    ELSE LET effective_rates == _get_effective_fees(master_schedule, broker_key, asset_type)
             holding_type == _determine_holding_type(buy_datetime, sell_datetime)
         IN  IF ~effective_rates.ok
             THEN IF effective_rates.err = "KeyError" THEN [raised |-> "KeyError"]
                  ELSE [error |-> effective_rates.err]
             ELSE IF asset_type = "stocks"
             THEN _calculate_stocks_fees(principal_value, trade_side, holding_type,
                                         effective_rates.val)
             ELSE IF asset_type \in {"options", "currency", "crypto"}
             THEN [asset |-> asset_type, error |-> "not yet implemented"]
             ELSE [error |-> "Unsupported asset type"]

\* Faulty variant of calculate_commission_fees: the asset type is not
\* looked at, every asset with a config is priced by the stocks formula.
calculate_commission_fees_AnyAssetPriced(master_schedule, broker_key, principal_value, trade_side, asset_type, buy_datetime, sell_datetime) ==
    IF RLe(principal_value, RZero) THEN [error |-> "Principal value must be positive."]
    ELSE LET effective_rates == _get_effective_fees(master_schedule, broker_key, asset_type)
             holding_type == _determine_holding_type(buy_datetime, sell_datetime)
         IN  IF ~effective_rates.ok
             THEN IF effective_rates.err = "KeyError" THEN [raised |-> "KeyError"]
                  ELSE [error |-> effective_rates.err]
             ELSE _calculate_stocks_fees(principal_value, trade_side, holding_type,
                                         effective_rates.val)

calculate_commission_fees(master_schedule, broker_key, principal_value, trade_side, asset_type, buy_datetime, sell_datetime) ==
    IF RLe(principal_value, RZero) THEN [error |-> "Principal value must be positive."]
    ELSE LET effective_rates == _get_effective_fees(master_schedule, broker_key, asset_type)
             holding_type == _determine_holding_type(buy_datetime, sell_datetime)
         IN  IF ~effective_rates.ok
             THEN IF effective_rates.err = "KeyError" THEN [raised |-> "KeyError"]
                  ELSE [error |-> effective_rates.err]
             ELSE IF asset_type = "stocks"
             THEN _calculate_stocks_fees(principal_value, trade_side, holding_type,
                                         effective_rates.val)
             ELSE IF asset_type \in {"options", "currency", "crypto"}
             THEN [asset |-> asset_type, error |-> "not yet implemented"]
             ELSE [error |-> "Unsupported asset type"]


\* -------------------------------------------------------------- Backtester
\* Inputs of the constructor and of run().
Capitals == {100}
Accounts == {<<"zerodha", "stocks", MASTER_FEE_SCHEDULE>>,
             <<"base", "stocks", MASTER_FEE_SCHEDULE>>,
             <<"unknown", "stocks", MASTER_FEE_SCHEDULE>>,
             <<"zerodha", "options", MASTER_FEE_SCHEDULE>>,
             <<"base", "crypto", MASTER_FEE_SCHEDULE>>,
             <<"solo", "stocks", NO_BASE_SCHEDULE>>}
\* Spacing of the DataFrame's DatetimeIndex, in hours.
Intervals == {12, 24}

VARIABLES
    initial_capital, broker_key, asset_type,    \* set by __init__
    master_schedule,                            \* self.calculator.master_schedule
    cash, shares, position, trades,             \* account state
    equity_curve, final_equity,                 \* results of run()
    interval, n,                                \* the DataFrame: index spacing, len()
    equity, current_entry_date, i, signal, price, \* locals of run()
    pc,                          \* "idle", "loop", "done" or "reported"
    trades_df,                   \* what get_trades() returned to the caller
    used,                        \* history: run() was called on this instance before
    call, fee_result,            \* a direct call of the calculator, its return
    resolved,                    \* what _get_effective_fees gave for that call
    metrics,                     \* max drawdown and Sharpe ratio of equity_curve
    frame,                       \* a DataFrame handed to run() as a whole
    strategy,                    \* locals of Strategy._apply_four_state_strategy_logic
    run_config,                  \* a call of ConfigManager.recursive_add_config
    heap                         \* the dict objects of a schedule, by identity

vars == <<initial_capital, broker_key, asset_type, master_schedule, cash, shares, position, trades,
          equity_curve, final_equity, interval, n, equity, current_entry_date,
          i, signal, price, pc, trades_df, used, call, fee_result, resolved, metrics,
          frame, strategy, run_config, heap>>

\* The variables the simulator never writes.
calc == <<call, fee_result, resolved, metrics, frame, strategy, run_config, heap>>

\* Faulty variant of Index: every bar carries the timestamp of bar 0.
Index_OneStamp(step, k) == 0 * step

\* signals_copy.index[k]
Index(step, k) == k * step

\* equity_curve = None
NoCurve == <<[idx |-> -1, val |-> NaN]>>

\* Faulty variant of _get_trade_fees: a failed calculation charges a flat fee.
_get_trade_fees_FailureCharged(broker, asset, principal_value, trade_side, buy_date, sell_date) ==
    LET result == calculate_commission_fees(master_schedule, broker, principal_value,
                                            trade_side, asset, buy_date, sell_date)
    IN  IF "raised" \in DOMAIN result THEN RInt(1)
        ELSE IF "error" \in DOMAIN result THEN RInt(1)
        ELSE DictGet(result, "total", RZero)

\* self._get_trade_fees(...): the total of the breakdown; 0.0 when the
\* calculator returns an error or raises.
_get_trade_fees(broker, asset, principal_value, trade_side, buy_date, sell_date) ==
    LET result == calculate_commission_fees(master_schedule, broker, principal_value,
                                            trade_side, asset, buy_date, sell_date)
    IN  IF "raised" \in DOMAIN result THEN RZero
        ELSE IF "error" \in DOMAIN result THEN RZero
        ELSE DictGet(result, "total", RZero)

\* The account fields the trade logic of the loop body writes.
acct == <<cash, shares, position, trades, current_entry_date>>

\* Equity of one bar, from the account state at the top of the loop body.
EquityValue(px) ==
    IF position = "SELL"
    THEN RSub(cash, RMul(RAbs(shares), px))
    ELSE RAdd(cash, RMul(shares, px))

\* Faulty variant of LongEntry: the fee is not taken out of the capital
\* that buys the shares.
LongEntry_GrossShares(px, ts) ==
    \E principal_value \in {cash} :
    \E fees \in {_get_trade_fees(broker_key, asset_type, principal_value, "BUY",
                                 isoformat(ts), NoDate)} :
    \E new_shares \in {RDiv(principal_value, px)} :
        IF RLt(RZero, RSub(principal_value, fees))
        THEN /\ shares' = new_shares
             /\ cash' = RZero
             /\ position' = "BUY"
             /\ current_entry_date' = isoformat(ts)
             /\ trades' = Append(trades,
                    [Entry_Date |-> ts, Entry_Price |-> px, Type |-> "Long",
                     Shares |-> new_shares, Fees_Entry |-> fees])
        ELSE UNCHANGED acct

\* Faulty variant of LongEntry: the residual is not tested before buying.
LongEntry_NoResidualCheck(px, ts) ==
    \E principal_value \in {cash} :
    \E fees \in {_get_trade_fees(broker_key, asset_type, principal_value, "BUY",
                                 isoformat(ts), NoDate)} :
    \E new_shares \in {RDiv(RSub(principal_value, fees), px)} :
        /\ shares' = new_shares
        /\ cash' = RZero
        /\ position' = "BUY"
        /\ current_entry_date' = isoformat(ts)
        /\ trades' = Append(trades,
               [Entry_Date |-> ts, Entry_Price |-> px, Type |-> "Long",
                Shares |-> new_shares, Fees_Entry |-> fees])

\* Faulty variant of LongEntry: the new record replaces the ledger.
LongEntry_LedgerReplaced(px, ts) ==
    \E principal_value \in {cash} :
    \E fees \in {_get_trade_fees(broker_key, asset_type, principal_value, "BUY",
                                 isoformat(ts), NoDate)} :
    \E shares_capital \in {RSub(principal_value, fees)} :
    \E new_shares \in {RDiv(shares_capital, px)} :
        IF RLt(RZero, shares_capital)
        THEN /\ shares' = new_shares
             /\ cash' = RZero
             /\ position' = "BUY"
             /\ current_entry_date' = isoformat(ts)
             /\ trades' = <<[Entry_Date |-> ts, Entry_Price |-> px, Type |-> "Long",
                             Shares |-> new_shares, Fees_Entry |-> fees]>>
        ELSE UNCHANGED acct

\* NOT_HELD and BUY_ENTRY.  The locals of the branch are bound one by one,
\* in the order the code assigns them.
LongEntry(px, ts) ==
    \E principal_value \in {cash} :
    \E fees \in {_get_trade_fees(broker_key, asset_type, principal_value, "BUY",
                                 isoformat(ts), NoDate)} :
    \E shares_capital \in {RSub(principal_value, fees)} :
    \E new_shares \in {RDiv(shares_capital, px)} :
        IF RLt(RZero, shares_capital)
        THEN /\ shares' = new_shares
             /\ cash' = RZero
             /\ position' = "BUY"
             /\ current_entry_date' = isoformat(ts)
             /\ trades' = Append(trades,
                    [Entry_Date |-> ts, Entry_Price |-> px, Type |-> "Long",
                     Shares |-> new_shares, Fees_Entry |-> fees])
        ELSE UNCHANGED acct

\* Faulty variant of ShortEntry: the share count is stored unsigned.
ShortEntry_PositiveShares(px, ts) ==
    \E shares_to_short \in {RDiv(cash, px)} :
    \E principal_value \in {RMul(shares_to_short, px)} :
    \E fees \in {_get_trade_fees(broker_key, asset_type, principal_value, "SELL",
                                 NoDate, isoformat(ts))} :
        /\ cash' = RAdd(cash, RSub(principal_value, fees))
        /\ shares' = shares_to_short
        /\ position' = "SELL"
        /\ current_entry_date' = isoformat(ts)
        /\ trades' = Append(trades,
               [Entry_Date |-> ts, Entry_Price |-> px, Type |-> "Short",
                Shares |-> shares_to_short, Fees_Entry |-> fees])

\* Faulty variant of ShortEntry: the entry fee is not taken from the proceeds.
ShortEntry_FeeNotCharged(px, ts) ==
    \E shares_to_short \in {RDiv(cash, px)} :
    \E principal_value \in {RMul(shares_to_short, px)} :
    \E fees \in {_get_trade_fees(broker_key, asset_type, principal_value, "SELL",
                                 NoDate, isoformat(ts))} :
        /\ cash' = RAdd(cash, principal_value)
        /\ shares' = RNeg(shares_to_short)
        /\ position' = "SELL"
        /\ current_entry_date' = isoformat(ts)
        /\ trades' = Append(trades,
               [Entry_Date |-> ts, Entry_Price |-> px, Type |-> "Short",
                Shares |-> shares_to_short, Fees_Entry |-> fees])

\* NOT_HELD and SELL_ENTRY.
ShortEntry(px, ts) ==
    \E shares_to_short \in {RDiv(cash, px)} :
    \E principal_value \in {RMul(shares_to_short, px)} :
    \E fees \in {_get_trade_fees(broker_key, asset_type, principal_value, "SELL",
                                 NoDate, isoformat(ts))} :
        /\ cash' = RAdd(cash, RSub(principal_value, fees))
        /\ shares' = RNeg(shares_to_short)
        /\ position' = "SELL"
        /\ current_entry_date' = isoformat(ts)
        /\ trades' = Append(trades,
               [Entry_Date |-> ts, Entry_Price |-> px, Type |-> "Short",
                Shares |-> shares_to_short, Fees_Entry |-> fees])

\* `not self.trades or 'Exit_Date' in self.trades[-1]`
NoOpenTrade(ledger) ==
    ledger = <<>> \/ "Exit_Date" \in DOMAIN ledger[Len(ledger)]

\* Faulty variant of CloseLast: the exit fields go into a new record.
CloseLast_Append(ledger, ts, px, fees) ==
    Append(ledger, [Exit_Date |-> ts, Exit_Price |-> px, Fees_Exit |-> fees])

\* self.trades[-1].update({...})
CloseLast(ledger, ts, px, fees) ==
    [ledger EXCEPT ![Len(ledger)] =
        DictUpdate(@, [Exit_Date |-> ts, Exit_Price |-> px, Fees_Exit |-> fees])]

\* Faulty variant of LongExit: the selling fee is not taken from the proceeds.
LongExit_FeeIgnored(px, ts) ==
    IF NoOpenTrade(trades) THEN UNCHANGED acct
    ELSE \E principal_value \in {RMul(shares, px)} :
         \E entry_date_str \in {isoformat(trades[Len(trades)].Entry_Date)} :
         \E fees \in {_get_trade_fees(broker_key, asset_type, principal_value, "SELL",
                                      entry_date_str, isoformat(ts))} :
            /\ cash' = RAdd(cash, principal_value)
            /\ trades' = CloseLast(trades, ts, px, fees)
            /\ shares' = RZero
            /\ position' = "NOT_HELD"
            /\ current_entry_date' = NoDate

\* Faulty variant of LongExit: the position is given up but the record is
\* left without its exit fields.
LongExit_RecordLeftOpen(px, ts) ==
    IF NoOpenTrade(trades) THEN UNCHANGED acct
    ELSE \E principal_value \in {RMul(shares, px)} :
         \E entry_date_str \in {isoformat(trades[Len(trades)].Entry_Date)} :
         \E fees \in {_get_trade_fees(broker_key, asset_type, principal_value, "SELL",
                                      entry_date_str, isoformat(ts))} :
            /\ cash' = RAdd(cash, RSub(principal_value, fees))
            /\ trades' = trades
            /\ shares' = RZero
            /\ position' = "NOT_HELD"
            /\ current_entry_date' = NoDate

\* BUY (long) and BUY_EXIT.
LongExit(px, ts) ==
    IF NoOpenTrade(trades) THEN UNCHANGED acct
    ELSE \E principal_value \in {RMul(shares, px)} :
         \E entry_date_str \in {isoformat(trades[Len(trades)].Entry_Date)} :
         \E fees \in {_get_trade_fees(broker_key, asset_type, principal_value, "SELL",
                                      entry_date_str, isoformat(ts))} :
            /\ cash' = RAdd(cash, RSub(principal_value, fees))
            /\ trades' = CloseLast(trades, ts, px, fees)
            /\ shares' = RZero
            /\ position' = "NOT_HELD"
            /\ current_entry_date' = NoDate

\* Faulty variant of ShortExit: the fee lowers the cost to cover.
ShortExit_FeeRefunded(px, ts) ==
    IF NoOpenTrade(trades) THEN UNCHANGED acct
    ELSE \E shares_to_cover \in {RAbs(shares)} :
         \E principal_value \in {RMul(shares_to_cover, px)} :
         \E entry_date_str \in {isoformat(trades[Len(trades)].Entry_Date)} :
         \E fees \in {_get_trade_fees(broker_key, asset_type, principal_value, "BUY",
                                      entry_date_str, isoformat(ts))} :
            /\ cash' = RSub(cash, RSub(principal_value, fees))
            /\ trades' = CloseLast(trades, ts, px, fees)
            /\ shares' = RZero
            /\ position' = "NOT_HELD"
            /\ current_entry_date' = NoDate

\* SELL (short) and SELL_EXIT.
ShortExit(px, ts) ==
    IF NoOpenTrade(trades) THEN UNCHANGED acct
    ELSE \E shares_to_cover \in {RAbs(shares)} :
         \E principal_value \in {RMul(shares_to_cover, px)} :
         \E entry_date_str \in {isoformat(trades[Len(trades)].Entry_Date)} :
         \E fees \in {_get_trade_fees(broker_key, asset_type, principal_value, "BUY",
                                      entry_date_str, isoformat(ts))} :
            /\ cash' = RSub(cash, RAdd(principal_value, fees))
            /\ trades' = CloseLast(trades, ts, px, fees)
            /\ shares' = RZero
            /\ position' = "NOT_HELD"
            /\ current_entry_date' = NoDate

\* Faulty variant of TradeLogic: entry signals are not guarded by NOT_HELD.
TradeLogic_AnyEntry(sig, px, ts) ==
    IF sig = "BUY_ENTRY" THEN LongEntry(px, ts)
    ELSE IF sig = "SELL_ENTRY" THEN ShortEntry(px, ts)
    ELSE IF position = "BUY" /\ sig = "BUY_EXIT" THEN LongExit(px, ts)
    ELSE IF position = "SELL" /\ sig = "SELL_EXIT" THEN ShortExit(px, ts)
    ELSE UNCHANGED acct

\* Faulty variant of TradeLogic: either exit signal closes either side.
TradeLogic_AnyExit(sig, px, ts) ==
    IF position = "NOT_HELD"
    THEN IF sig = "BUY_ENTRY" THEN LongEntry(px, ts)
         ELSE IF sig = "SELL_ENTRY" THEN ShortEntry(px, ts)
         ELSE UNCHANGED acct
    ELSE IF position = "BUY"
    THEN IF sig \in {"BUY_EXIT", "SELL_EXIT"} THEN LongExit(px, ts)
         ELSE UNCHANGED acct
    ELSE IF sig \in {"BUY_EXIT", "SELL_EXIT"} THEN ShortExit(px, ts)
         ELSE UNCHANGED acct

\* The if/elif chain of the loop body ("Trade Logic").
TradeLogic(sig, px, ts) ==
    IF position = "NOT_HELD"
    THEN IF sig = "BUY_ENTRY" THEN LongEntry(px, ts)
         ELSE IF sig = "SELL_ENTRY" THEN ShortEntry(px, ts)
         ELSE UNCHANGED acct
    ELSE IF position = "BUY"
    THEN IF sig = "BUY_EXIT" THEN LongExit(px, ts) ELSE UNCHANGED acct
    ELSE IF position = "SELL"
    THEN IF sig = "SELL_EXIT" THEN ShortExit(px, ts) ELSE UNCHANGED acct
    ELSE UNCHANGED acct

\* range(1, len(signals_copy)) starts here.
FirstBar == 1

\* Faulty variant of DropNa: the NaN of the skipped bar 0 is kept.
DropNa_KeepAll(series, k, len) ==
    [j \in 1..(len - k) |-> [idx |-> k + j - 1, val |-> series[k + j - 1]]]

\* equity.dropna(): the (index, value) pairs that are not NaN, in order.
RECURSIVE DropNa(_, _, _)
DropNa(series, k, len) ==
    IF k >= len THEN <<>>
    ELSE (IF series[k] = NaN THEN <<>> ELSE <<[idx |-> k, val |-> series[k]]>>)
         \o DropNa(series, k + 1, len)

\* Faulty variant of FinalEquity: an open position is reported at the
\* initial capital instead of at the last recorded equity.
FinalEquity_OpenAtCapital(curve, series, len, pos, capital) ==
    LET first == IF curve # <<>> THEN curve[Len(curve)].val ELSE capital
    IN  IF pos # "NOT_HELD" /\ curve # <<>> THEN capital ELSE first

\* self.final_equity after the loop.
FinalEquity(curve, series, len, pos, capital) ==
    LET first == IF curve # <<>> THEN curve[Len(curve)].val ELSE capital
    IN  IF pos # "NOT_HELD" /\ curve # <<>> THEN series[len - 1] ELSE first

\* A DataFrame handed back by get_trades(), or the exception it raised.
Frame(rows) == [raised |-> "", rows |-> rows]
Raised(exc) == [raised |-> exc, rows |-> <<>>]
\* No call of get_trades() since the run started.
NoFrame == [raised |-> "", rows |-> <<>>, pending |-> TRUE]

\* pd.DataFrame(self.trades).columns: every key of some record.
Columns(ledger) == UNION {DOMAIN ledger[k] : k \in 1..Len(ledger)}

\* dropna(subset=...) keeps a row when none of the subset's cells is missing.
HasAll(rec, subset) ==
    \A c \in subset : c \in DOMAIN rec /\ rec[c] # NaN

\* Faulty variant of WithPL: the net P/L is reported before fees.
WithPL_FeesLeftOut(rec) ==
    LET qty == RAbs(rec.Shares)
        gross == IF rec.Type = "Long"
                 THEN RMul(RSub(rec.Exit_Price, rec.Entry_Price), qty)
                 ELSE RMul(RSub(rec.Entry_Price, rec.Exit_Price), qty)
        total == RAdd(rec.Fees_Entry, rec.Fees_Exit)
    IN  DictUpdate(rec, [Shares |-> qty, Gross_PL |-> gross, Total_Fees |-> total,
                         Net_PL |-> gross, PL |-> gross])

\* The columns get_trades() adds to one completed row.
WithPL(rec) ==
    LET qty == RAbs(rec.Shares)
        gross == IF rec.Type = "Long"
                 THEN RMul(RSub(rec.Exit_Price, rec.Entry_Price), qty)
                 ELSE RMul(RSub(rec.Entry_Price, rec.Exit_Price), qty)
        total == RAdd(rec.Fees_Entry, rec.Fees_Exit)
        net == RSub(gross, total)
    IN  DictUpdate(rec, [Shares |-> qty, Gross_PL |-> gross, Total_Fees |-> total,
                         Net_PL |-> net, PL |-> net])

RECURSIVE CompletedTrades(_, _, _)
CompletedTrades(ledger, k, subset) ==
    IF k > Len(ledger) THEN <<>>
    ELSE (IF HasAll(ledger[k], subset) THEN <<WithPL(ledger[k])>> ELSE <<>>)
         \o CompletedTrades(ledger, k + 1, subset)

get_trades(ledger) ==
    LET subset == {"Exit_Price", "Fees_Entry", "Fees_Exit"}
    IN  IF ledger = <<>> THEN Frame(<<>>)
        ELSE IF ~(subset \subseteq Columns(ledger)) THEN Raised("KeyError")
        ELSE Frame(CompletedTrades(ledger, 1, subset))

\* No direct call of the calculator yet.
NoCall == [broker_key |-> None]
NoResult == [pending |-> TRUE]

\* Backtester(initial_capital, broker_key, asset_type), no run yet.
Constructed ==
    /\ initial_capital \in {RInt(c) : c \in Capitals}
    /\ \E a \in Accounts :
          broker_key = a[1] /\ asset_type = a[2] /\ master_schedule = a[3]
    /\ cash = initial_capital
    /\ shares = RZero
    /\ position = "NOT_HELD"
    /\ trades = <<>>
    /\ equity_curve = NoCurve
    /\ final_equity = RZero
    /\ interval \in Intervals
    /\ n = 0
    /\ equity = <<>>
    /\ current_entry_date = NoDate
    /\ i = 0
    /\ signal = None
    /\ price = NaN
    /\ pc = "idle"
    /\ trades_df = NoFrame
    /\ used = FALSE

\* The metrics computed so far, by name: none yet.
NoMetrics == EmptyDict

\* No DataFrame kept, no strategy applied, no configuration merged, no
\* object graph built.
NoFrameKept == <<>>
NoStrategy == [pc |-> "idle"]
NoConfig == [pc |-> "idle"]
NoHeap == EmptyDict
Unused == frame = NoFrameKept /\ strategy = NoStrategy /\ run_config = NoConfig /\ heap = NoHeap

Init ==
    /\ Constructed
    /\ call = NoCall
    /\ fee_result = NoResult
    /\ resolved = NoResult
    /\ metrics = NoMetrics
    /\ Unused

\* Faulty variant of Run: the ledger of the earlier run is not cleared.
Run_LedgerKept ==
    /\ pc \in {"idle", "done", "reported"}
    /\ \E len \in 0..MaxBars, step \in Intervals :
        /\ n' = len
        /\ interval' = step
        /\ equity' = [k \in 0..(len - 1) |-> NaN]
    /\ cash' = initial_capital
    /\ shares' = RZero
    /\ position' = "NOT_HELD"
    /\ trades' = trades
    /\ equity_curve' = NoCurve
    /\ final_equity' = RZero
    /\ current_entry_date' = NoDate
    /\ i' = FirstBar
    /\ signal' = None
    /\ price' = NaN
    /\ pc' = "loop"
    /\ trades_df' = NoFrame
    /\ used' = (pc # "idle")
    /\ UNCHANGED <<initial_capital, broker_key, asset_type, master_schedule, calc>>

\* run(df_with_signals) up to the loop: _reset_state() and the locals.
Run ==
    /\ pc \in {"idle", "done", "reported"}
    /\ \E len \in 0..MaxBars, step \in Intervals :
        /\ n' = len
        /\ interval' = step
        /\ equity' = [k \in 0..(len - 1) |-> NaN]
    /\ cash' = initial_capital
    /\ shares' = RZero
    /\ position' = "NOT_HELD"
    /\ trades' = <<>>
    /\ equity_curve' = NoCurve
    /\ final_equity' = RZero
    /\ current_entry_date' = NoDate
    /\ i' = FirstBar
    /\ signal' = None
    /\ price' = NaN
    /\ pc' = "loop"
    /\ trades_df' = NoFrame
    /\ used' = (pc # "idle")
    /\ UNCHANGED <<initial_capital, broker_key, asset_type, master_schedule, calc>>

\* One iteration of the loop over the bars: the row i of the DataFrame is
\* read, the equity of the bar is stored, then the trade logic runs.
Bar ==
    /\ pc = "loop"
    /\ i < n
    /\ \E sig \in SIGNAL, p \in 1..MaxPrice :
       \E px \in {RInt(p)}, ts \in {Index(interval, i)} :
            /\ signal' = sig
            /\ price' = px
            /\ equity' = [equity EXCEPT ![i] = EquityValue(px)]
            /\ TradeLogic(sig, px, ts)
    /\ i' = i + 1
    /\ UNCHANGED <<initial_capital, broker_key, asset_type, master_schedule, used, equity_curve,
                   final_equity, interval, n, pc, trades_df, calc>>

\* Faulty variant of Finish: a position still open is closed on the last
\* bar, without a fee.
Finish_CloseAtEnd ==
    /\ pc = "loop"
    /\ i >= n
    /\ equity_curve' = DropNa(equity, 0, n)
    /\ final_equity' = FinalEquity(equity_curve', equity, n, position, initial_capital)
    /\ trades' = IF position # "NOT_HELD"
                 THEN CloseLast(trades, Index(interval, n - 1), price, RZero)
                 ELSE trades
    /\ pc' = "done"
    /\ UNCHANGED <<initial_capital, broker_key, asset_type, master_schedule, used, cash,
                   shares, position, interval, n, equity, current_entry_date, i,
                   signal, price, trades_df, calc>>

\* After the loop: the equity curve and the final equity.
Finish ==
    /\ pc = "loop"
    /\ i >= n
    /\ equity_curve' = DropNa(equity, 0, n)
    /\ final_equity' = FinalEquity(equity_curve', equity, n, position, initial_capital)
    /\ pc' = "done"
    /\ UNCHANGED <<initial_capital, broker_key, asset_type, master_schedule, used, cash, shares, position,
                   trades, interval, n, equity, current_entry_date, i, signal, price,
                   trades_df, calc>>

\* The caller asks for the completed trades of the run that just ended.
GetTrades ==
    /\ pc = "done"
    /\ trades_df' = get_trades(trades)
    /\ pc' = "reported"
    /\ UNCHANGED <<initial_capital, broker_key, asset_type, master_schedule, used, cash, shares, position,
                   trades, equity_curve, final_equity, interval, n, equity,
                   current_entry_date, i, signal, price, calc>>

Next == Run \/ Bar \/ Finish \/ GetTrades

Spec == Init /\ [][Next]_vars

\* ------------------------------------------- the calculator called directly
\* Arguments of calculate_commission_fees.
Brokers == {"zerodha", "base", "kite", "flat", "orphan", "unknown"}
Principals == {RInt(100 * p) : p \in -1..MaxPrincipal}
Malformed == [kind |-> "malformed", date |-> 0, hour |-> 0]
Dates == {NoDate, Malformed} \cup {isoformat(h * 12) : h \in 0..3}

Calls ==
    [broker_key : Brokers, principal_value : Principals, trade_side : TradeSide,
     asset_type : AssetType, buy_datetime : Dates, sell_datetime : Dates]

\* calculator.calculate_commission_fees(**call)
Calculate ==
    /\ fee_result = NoResult
    /\ \E b \in {call.broker_key}, p \in {call.principal_value},
          s \in {call.trade_side}, a \in {call.asset_type},
          bd \in {call.buy_datetime}, sd \in {call.sell_datetime} :
          fee_result' = calculate_commission_fees(master_schedule, b, p, s, a, bd, sd)
    /\ UNCHANGED <<initial_capital, broker_key, asset_type, master_schedule, used, cash,
                   shares, position, trades, equity_curve, final_equity, interval, n,
                   equity, current_entry_date, i, signal, price, pc, trades_df, call,
                   resolved, metrics, frame, strategy, run_config, heap>>

\* calculator._get_effective_fees(call.broker_key, call.asset_type): its
\* local merged_rates and what it returns; a ValueError raised by either is
\* kept as the failed result.
Resolve ==
    /\ resolved = NoResult
    /\ \E b \in {call.broker_key}, a \in {call.asset_type} :
          \E m \in {get_merged_section(master_schedule, b, None, "inherits_from")},
             e \in {_get_effective_fees(master_schedule, b, a)} :
             resolved' = [merged_rates |-> m, effective_config |-> e]
    /\ UNCHANGED <<initial_capital, broker_key, asset_type, master_schedule, used, cash,
                   shares, position, trades, equity_curve, final_equity, interval, n,
                   equity, current_entry_date, i, signal, price, pc, trades_df, call,
                   fee_result, metrics, frame, strategy, run_config, heap>>

CalcInit ==
    /\ Constructed /\ broker_key = "base" /\ asset_type = "stocks" /\ interval = 24
    /\ master_schedule = MASTER_FEE_SCHEDULE
    /\ call \in Calls
    /\ fee_result = NoResult
    /\ resolved = NoResult
    /\ metrics = NoMetrics
    /\ Unused

CalcNext == Calculate \/ Resolve

CalcSpec == CalcInit /\ [][CalcNext]_vars


\* --------------------------------------------------- performance metrics
\* Longest equity curve analysed, and the values its points take.
MaxCurve == 4
CurveValues == {90, 100, 110, 120}

\* Series.values of an equity curve.
Values(curve) == [k \in 1..Len(curve) |-> curve[k].val]

\* Faulty variant of cummax: the maximum of the whole series at every bar.
cummax_Global(values) ==
    [k \in 1..Len(values) |->
        CHOOSE v \in SeqElems(values) : \A w \in SeqElems(values) : RLe(w, v)]

\* Series.cummax(): the running maximum.
RECURSIVE cummax(_)
cummax(values) ==
    IF Len(values) <= 1 THEN values
    ELSE LET before == cummax(SubSeq(values, 1, Len(values) - 1))
         IN  Append(before, RMax(before[Len(before)], values[Len(values)]))

\* Series.min() of a non-empty series without NaN.
SeriesMin(values) ==
    CHOOSE v \in SeqElems(values) : \A w \in SeqElems(values) : RLe(v, w)

_calculate_max_drawdown(curve) ==
    IF curve = NoCurve \/ curve = <<>> THEN RZero
    ELSE LET rolling_max == cummax(Values(curve))
             drawdown == [k \in 1..Len(curve) |->
                             RDiv(RSub(curve[k].val, rolling_max[k]), rolling_max[k])]
         IN  RMul(SeriesMin(drawdown), RInt(100))

\* Series.pct_change().dropna(): the relative change of each point but the
\* first, whose change is NaN and dropped.
pct_change(values) ==
    [k \in 1..(Len(values) - 1) |-> RSub(RDiv(values[k + 1], values[k]), RInt(1))]

RECURSIVE SeriesSum(_)
SeriesSum(values) ==
    IF values = <<>> THEN RZero ELSE RAdd(Head(values), SeriesSum(Tail(values)))

\* Series.mean() of a non-empty series.
SeriesMean(values) == RDiv(SeriesSum(values), RInt(Len(values)))

\* Series.std() with pandas' default ddof = 1, by kind: NaN for fewer than 2
\* observations, 0 when all observations are equal, positive otherwise.
SeriesStd(values) ==
    IF Len(values) < 2 THEN "nan"
    ELSE IF \A k \in 1..Len(values) : values[k] = values[1] THEN "zero"
    ELSE "positive"

\* A float returned as it is.
Exact(x) == [value |-> x, scale |-> "exact"]
\* mean / std * sqrt(252) for a positive std: an irrational in general, kept
\* as the mean it is proportional to.
Annualised(mean) ==
    IF mean = RZero THEN Exact(RZero) ELSE [value |-> mean, scale |-> "per_std"]

_calculate_sharpe_ratio(curve) ==
    IF curve = NoCurve \/ curve = <<>> THEN Exact(RZero)
    ELSE LET daily_returns == pct_change(Values(curve))
         IN  IF SeriesStd(daily_returns) = "zero" \/ Len(daily_returns) = 0
             THEN Exact(RZero)
             \* (mean - 0) / NaN
             ELSE IF SeriesStd(daily_returns) = "nan" THEN Exact(NaN)
             ELSE Annualised(SeriesMean(daily_returns))

\* The equity curves analysed: None, and every series of up to MaxCurve
\* points over CurveValues.
Curves ==
    {NoCurve} \cup
    UNION {{[k \in 1..len |-> [idx |-> k, val |-> RInt(points[k])]] :
                points \in [1..len -> CurveValues]} : len \in 0..MaxCurve}

\* self._calculate_max_drawdown()
MaxDrawdown ==
    /\ "max_drawdown" \notin DOMAIN metrics
    /\ \E m \in {_calculate_max_drawdown(equity_curve)} :
          metrics' = DictUpdate(metrics, [max_drawdown |-> m])
    /\ UNCHANGED <<initial_capital, broker_key, asset_type, master_schedule, used, cash,
                   shares, position, trades, equity_curve, final_equity, interval, n,
                   equity, current_entry_date, i, signal, price, pc, trades_df, call,
                   fee_result, resolved, frame, strategy, run_config, heap>>

\* self._calculate_sharpe_ratio()
SharpeRatio ==
    /\ "sharpe_ratio" \notin DOMAIN metrics
    /\ \E m \in {_calculate_sharpe_ratio(equity_curve)} :
          metrics' = DictUpdate(metrics, [sharpe_ratio |-> m])
    /\ UNCHANGED <<initial_capital, broker_key, asset_type, master_schedule, used, cash,
                   shares, position, trades, equity_curve, final_equity, interval, n,
                   equity, current_entry_date, i, signal, price, pc, trades_df, call,
                   fee_result, resolved, frame, strategy, run_config, heap>>

\* A constructed instance whose equity_curve attribute holds the series
\* under analysis.
MetricsInit ==
    /\ initial_capital \in {RInt(c) : c \in Capitals}
    /\ broker_key = "base" /\ asset_type = "stocks"
    /\ master_schedule = MASTER_FEE_SCHEDULE
    /\ cash = initial_capital
    /\ shares = RZero
    /\ position = "NOT_HELD"
    /\ trades = <<>>
    /\ equity_curve \in Curves
    /\ final_equity = RZero
    /\ interval = 24
    /\ n = 0
    /\ equity = <<>>
    /\ current_entry_date = NoDate
    /\ i = 0
    /\ signal = None
    /\ price = NaN
    /\ pc = "idle"
    /\ trades_df = NoFrame
    /\ used = FALSE
    /\ call = NoCall
    /\ fee_result = NoResult
    /\ resolved = NoResult
    /\ metrics = NoMetrics
    /\ Unused

MetricsNext == MaxDrawdown \/ SharpeRatio

MetricsSpec == MetricsInit /\ [][MetricsNext]_vars


\* ------------------------------------------------ runs on a whole DataFrame
\* A row of df_with_signals.
Row(sig, close) == [Signal |-> sig, Close |-> RInt(close)]
ScenarioCloses == {90, 100, 101, 102}

\* One long round trip held over a bar, on daily bars.
LongRoundTrips ==
    {[capital |-> 100000, broker |-> "zerodha", step |-> 24,
      rows |-> <<Row("NO_ACTION", 100), Row("BUY_ENTRY", e),
                 Row("NO_ACTION", 102), Row("BUY_EXIT", x)>>] :
        e \in ScenarioCloses, x \in ScenarioCloses}

\* One short round trip on bars 12 hours apart.
ShortRoundTrips ==
    {[capital |-> 100000, broker |-> "zerodha", step |-> 12,
      rows |-> <<Row("NO_ACTION", 100), Row("SELL_ENTRY", e), Row("SELL_EXIT", x)>>] :
        e \in ScenarioCloses, x \in ScenarioCloses}

\* Two short round trips, the first covered at twice the entry price.
RepeatedShorts ==
    {[capital |-> 100, broker |-> b, step |-> 24,
      rows |-> <<Row("NO_ACTION", 1), Row("SELL_ENTRY", 1), Row("SELL_EXIT", 2),
                 Row("SELL_ENTRY", 1), Row("SELL_EXIT", 1)>>] :
        b \in {"base", "zerodha"}}

Scenarios == LongRoundTrips \cup ShortRoundTrips \cup RepeatedShorts

\* Backtester(capital, broker, AssetType.STOCKS) and the DataFrame it will run on.
ScenarioInit ==
    /\ \E sc \in Scenarios :
          /\ initial_capital = RInt(sc.capital)
          /\ broker_key = sc.broker
          /\ interval = sc.step
          /\ frame = sc.rows
    /\ asset_type = "stocks"
    /\ master_schedule = MASTER_FEE_SCHEDULE
    /\ cash = initial_capital
    /\ shares = RZero
    /\ position = "NOT_HELD"
    /\ trades = <<>>
    /\ equity_curve = NoCurve
    /\ final_equity = RZero
    /\ n = 0
    /\ equity = <<>>
    /\ current_entry_date = NoDate
    /\ i = 0
    /\ signal = None
    /\ price = NaN
    /\ pc = "idle"
    /\ trades_df = NoFrame
    /\ used = FALSE
    /\ call = NoCall
    /\ fee_result = NoResult
    /\ resolved = NoResult
    /\ metrics = NoMetrics
    /\ strategy = NoStrategy /\ run_config = NoConfig /\ heap = NoHeap

\* run(frame) up to the loop.
RunFrame ==
    /\ pc \in {"idle", "done", "reported"}
    /\ n' = Len(frame)
    /\ interval' = interval
    /\ equity' = [k \in 0..(Len(frame) - 1) |-> NaN]
    /\ cash' = initial_capital
    /\ shares' = RZero
    /\ position' = "NOT_HELD"
    /\ trades' = <<>>
    /\ equity_curve' = NoCurve
    /\ final_equity' = RZero
    /\ current_entry_date' = NoDate
    /\ i' = FirstBar
    /\ signal' = None
    /\ price' = NaN
    /\ pc' = "loop"
    /\ trades_df' = NoFrame
    /\ used' = (pc # "idle")
    /\ UNCHANGED <<initial_capital, broker_key, asset_type, master_schedule, calc>>

\* One iteration of the loop on row i of the frame (rows count from 0).
BarFrame ==
    /\ pc = "loop"
    /\ i < n
    /\ \E sig \in {frame[i + 1].Signal}, px \in {frame[i + 1].Close},
          ts \in {Index(interval, i)} :
            /\ signal' = sig
            /\ price' = px
            /\ equity' = [equity EXCEPT ![i] = EquityValue(px)]
            /\ TradeLogic(sig, px, ts)
    /\ i' = i + 1
    /\ UNCHANGED <<initial_capital, broker_key, asset_type, master_schedule, used, equity_curve,
                   final_equity, interval, n, pc, trades_df, calc>>

ScenarioNext == RunFrame \/ BarFrame \/ Finish \/ GetTrades

ScenarioSpec == ScenarioInit /\ [][ScenarioNext]_vars


\* ---------------------------------------------------------------------
\* Strategy._apply_four_state_strategy_logic: the four-state machine that
\* turns the entry and exit condition series into the Signal column.

\* pd.Series(0, index=df.index): the integer every bar starts with.
Unsignalled == "0"

\* signals.iloc[k]
Iloc(series, k) == series[k + 1]

\* The row of the four condition series at one bar.
ConditionRows ==
    [buy_entry : BOOLEAN, sell_entry : BOOLEAN,
     long_exit : BOOLEAN, short_exit : BOOLEAN]

\* Faulty variant of FourState: an entry condition is followed whatever
\* position is held.
FourState_EntryAnywhere(held, row) ==
    IF row.buy_entry THEN [signal |-> "BUY_ENTRY", position |-> "BUY"]
    ELSE IF row.sell_entry THEN [signal |-> "SELL_ENTRY", position |-> "SELL"]
    ELSE IF held = "BUY" /\ row.long_exit
         THEN [signal |-> "BUY_EXIT", position |-> "NOT_HELD"]
    ELSE IF held = "SELL" /\ row.short_exit
         THEN [signal |-> "SELL_EXIT", position |-> "NOT_HELD"]
    ELSE [signal |-> Unsignalled, position |-> held]

\* The body of the loop: the signal written at a bar (Unsignalled when
\* nothing is written) and the position after it.
FourState(held, row) ==
    IF held = "NOT_HELD"
    THEN IF row.buy_entry THEN [signal |-> "BUY_ENTRY", position |-> "BUY"]
         ELSE IF row.sell_entry THEN [signal |-> "SELL_ENTRY", position |-> "SELL"]
         ELSE [signal |-> Unsignalled, position |-> held]
    ELSE IF held = "BUY" /\ row.long_exit
         THEN [signal |-> "BUY_EXIT", position |-> "NOT_HELD"]
    ELSE IF held = "SELL" /\ row.short_exit
         THEN [signal |-> "SELL_EXIT", position |-> "NOT_HELD"]
    ELSE [signal |-> Unsignalled, position |-> held]

\* A caller that has not called the strategy yet.
StrategyInit ==
    /\ initial_capital \in {RInt(c) : c \in Capitals}
    /\ broker_key = "base" /\ asset_type = "stocks"
    /\ master_schedule = MASTER_FEE_SCHEDULE
    /\ cash = initial_capital
    /\ shares = RZero
    /\ position = "NOT_HELD"
    /\ trades = <<>>
    /\ equity_curve = <<>>
    /\ final_equity = RZero
    /\ interval = 24
    /\ n = 0
    /\ equity = <<>>
    /\ current_entry_date = NoDate
    /\ i = 0
    /\ signal = None
    /\ price = NaN
    /\ pc = "idle"
    /\ trades_df = NoFrame
    /\ used = FALSE
    /\ call = NoCall
    /\ fee_result = NoResult
    /\ resolved = NoResult
    /\ metrics = NoMetrics
    /\ frame = NoFrameKept
    /\ strategy = NoStrategy
    /\ run_config = NoConfig
    /\ heap = NoHeap

\* The call: signals is all 0 over the index of df and no position is held.
ApplyFourState ==
    /\ strategy.pc = "idle"
    /\ \E len \in 0..MaxBars :
          strategy' = [pc |-> "loop", len |-> len, i |-> 1,
                       position |-> "NOT_HELD", read |-> <<>>,
                       signals |-> [k \in 1..len |-> Unsignalled]]
    /\ UNCHANGED <<initial_capital, broker_key, asset_type, master_schedule, used, cash,
                   shares, position, trades, equity_curve, final_equity, interval, n,
                   equity, current_entry_date, i, signal, price, pc, trades_df, call,
                   fee_result, resolved, metrics, frame, run_config, heap>>

\* One iteration of for i in range(1, len(df)), on the row of conditions
\* at bar i; read keeps the rows the loop has looked at, from bar 1 on.
FourStateBar ==
    /\ strategy.pc = "loop"
    /\ strategy.i < strategy.len
    /\ \E row \in ConditionRows :
       \E out \in {FourState(strategy.position, row)} :
          strategy' = [strategy EXCEPT
                          !.signals = IF out.signal = Unsignalled THEN @
                                      ELSE [@ EXCEPT ![strategy.i + 1] = out.signal],
                          !.position = out.position,
                          !.read = Append(@, row),
                          !.i = @ + 1]
    /\ UNCHANGED <<initial_capital, broker_key, asset_type, master_schedule, used, cash,
                   shares, position, trades, equity_curve, final_equity, interval, n,
                   equity, current_entry_date, i, signal, price, pc, trades_df, call,
                   fee_result, resolved, metrics, frame, run_config, heap>>

\* df['Signal'] = signals; return df
FourStateReturn ==
    /\ strategy.pc = "loop"
    /\ strategy.i >= strategy.len
    /\ strategy' = [strategy EXCEPT !.pc = "done"]
    /\ UNCHANGED <<initial_capital, broker_key, asset_type, master_schedule, used, cash,
                   shares, position, trades, equity_curve, final_equity, interval, n,
                   equity, current_entry_date, i, signal, price, pc, trades_df, call,
                   fee_result, resolved, metrics, frame, run_config, heap>>

StrategyNext == ApplyFourState \/ FourStateBar \/ FourStateReturn

StrategySpec == StrategyInit /\ [][StrategyNext]_vars


\* ---------------------------------------------------------------------
\* The calculator on schedules whose inherits_from pointers do not lead to
\* a root: rings, a fragment naming itself, and a ladder of fragments
\* longer than get_merged_section follows.

\* The parent pointers circular_1 <-> circular_2 of TEST_CONFIG, as broker
\* fragments, beside a fragment that inherits from itself.
RING_SCHEDULE ==
    [base |-> MASTER_FEE_SCHEDULE.base,
     zerodha |-> MASTER_FEE_SCHEDULE.zerodha,
     ring_a |->
        [inherits_from |-> "ring_b",
         stocks |-> [broker |-> [rate_buy |-> <<0, 1>>]]],
     ring_b |->
        [inherits_from |-> "ring_a",
         stocks |-> [broker |-> [rate_sell |-> <<0, 1>>]]],
     hermit |->
        [inherits_from |-> "hermit",
         stocks |-> [broker |-> [rate_buy |-> <<0, 1>>]]]]

\* Fragments "1", "2", ... each inheriting from the next; the last one, one
\* past max_depth, inherits nothing.
LADDER_SCHEDULE ==
    LET rungs == max_depth + 1
        Rung(key) == CHOOSE k \in 1..rungs : ToString(k) = key
    IN  [base |-> MASTER_FEE_SCHEDULE.base] @@
        [key \in {ToString(k) : k \in 1..rungs} |->
            IF Rung(key) < rungs
            THEN [inherits_from |-> ToString(Rung(key) + 1)]
            ELSE [stocks |-> [broker |-> [rate_buy |-> <<0, 1>>]]]]

MergeBrokers == {"zerodha", "ring_a", "ring_b", "hermit", "1", "2", "3"}

MergeCalls ==
    [broker_key : MergeBrokers, principal_value : Principals, trade_side : TradeSide,
     asset_type : AssetType, buy_datetime : {NoDate, isoformat(0)},
     sell_datetime : {NoDate}]

\* CommissionCalculator(master_schedule) on one of these schedules, and the
\* arguments of the call to come.
MergeInit ==
    /\ initial_capital \in {RInt(c) : c \in Capitals}
    /\ broker_key = "base" /\ asset_type = "stocks"
    /\ master_schedule \in {RING_SCHEDULE, LADDER_SCHEDULE}
    /\ cash = initial_capital
    /\ shares = RZero
    /\ position = "NOT_HELD"
    /\ trades = <<>>
    /\ equity_curve = <<>>
    /\ final_equity = RZero
    /\ interval = 24
    /\ n = 0
    /\ equity = <<>>
    /\ current_entry_date = NoDate
    /\ i = 0
    /\ signal = None
    /\ price = NaN
    /\ pc = "idle"
    /\ trades_df = NoFrame
    /\ used = FALSE
    /\ call \in MergeCalls
    /\ fee_result = NoResult
    /\ resolved = NoResult
    /\ metrics = NoMetrics
    /\ Unused

MergeSpec == MergeInit /\ [][CalcNext]_vars


\* ---------------------------------------------------------------------
\* The master schedule as Python objects. A dict is an object of the heap,
\* named by the path that leads to it from the schedule (<<>> is the
\* schedule itself) or, for a dict made during a call, by "$" and the local
\* that holds it; a dict-valued entry holds the name of the object it
\* refers to, so two entries can refer to one object.

\* The keys of a fragment or of an asset config whose value is a dict
\* (isinstance(value, dict)); every other key holds a number or a string.
DictKeys == AssetType \cup {"broker", "regulatory"}

Paths(schedule) ==
    {<<>>} \cup {<<b>> : b \in DOMAIN schedule}
    \cup UNION {{<<b, a>> : a \in (DOMAIN schedule[b]) \cap DictKeys} : b \in DOMAIN schedule}
    \cup UNION {UNION {{<<b, a, s>> : s \in DOMAIN schedule[b][a]} :
                        a \in (DOMAIN schedule[b]) \cap DictKeys} : b \in DOMAIN schedule}

\* The objects of a schedule as json.load builds them: no object is shared.
Load(schedule) ==
    [p \in Paths(schedule) |->
        IF Len(p) = 0 THEN [b \in DOMAIN schedule |-> <<b>>]
        ELSE IF Len(p) = 1
        THEN [k \in DOMAIN schedule[p[1]] |->
                 IF k \in DictKeys THEN <<p[1], k>> ELSE schedule[p[1]][k]]
        ELSE IF Len(p) = 2
        THEN [s \in DOMAIN schedule[p[1]][p[2]] |-> <<p[1], p[2], s>>]
        ELSE schedule[p[1]][p[2]][p[3]]]

\* The value a reader sees in the object `obj`, following the references.
RECURSIVE Deref(_, _)
Deref(objects, obj) ==
    [k \in DOMAIN objects[obj] |->
        IF obj = <<>> \/ k \in DictKeys THEN Deref(objects, objects[obj][k])
        ELSE objects[obj][k]]

\* target = {} / target = source.copy(): a new object with the entries of
\* source, the references among them included.
New(objects, target, entries) == (target :> entries) @@ objects
Copy(objects, source, target) == New(objects, target, objects[source])

\* target[key] = value
Put(objects, target, key, value) ==
    [objects EXCEPT ![target] = (key :> value) @@ @]

RECURSIVE DeepMergeObjects(_, _, _, _)

\* for key, value in override_dict.items(): ... of deep_merge, `merged`
\* being the dict written to and `fresh` the name for the dicts made below.
RECURSIVE MergeItems(_, _, _, _, _)
MergeItems(objects, override_dict, merged, fresh, keys) ==
    IF keys = {} THEN objects
    ELSE LET key == CHOOSE k \in keys : TRUE
             value == objects[override_dict][key]
         IN  IF key \in DOMAIN objects[merged] /\ key \in DictKeys
             THEN LET child == Append(fresh, key)
                      below == DeepMergeObjects(objects, objects[merged][key], value, child)
                  IN  MergeItems(Put(below, merged, key, child), override_dict,
                                 merged, fresh, keys \ {key})
             ELSE MergeItems(Put(objects, merged, key, value), override_dict,
                             merged, fresh, keys \ {key})

\* Faulty variant of DeepMergeObjects: merged = base_dict, without the
\* copy, so the overrides are written into the base dict itself.
DeepMergeObjects_InPlace(objects, base_dict, override_dict, fresh) ==
    LET written == MergeItems(objects, override_dict, base_dict, fresh,
                              DOMAIN objects[override_dict])
    IN  Copy(written, base_dict, fresh)

\* UtilsJson.deep_merge on objects: the heap after the call, in which the
\* object `fresh` is the dict returned.
DeepMergeObjects(objects, base_dict, override_dict, fresh) ==
    MergeItems(Copy(objects, base_dict, fresh), override_dict, fresh, fresh,
               DOMAIN objects[override_dict])

\* The heap when _get_effective_fees returns or raises.
EffectiveFeesObjects(objects, broker, asset) ==
    LET config_data == [b \in DOMAIN objects[<<>>] |-> objects[objects[<<>>][b]]]
        merged == get_merged_section(config_data, broker, None, "inherits_from")
    IN  IF ~merged.ok \/ "base" \notin DOMAIN objects[<<>>] THEN objects
        ELSE LET base == objects[objects[<<>>]["base"]]
                 made == New(New(New(objects, <<"$merged_section">>, merged.val),
                                 <<"$base_default">>, EmptyDict),
                             <<"$merged_default">>, EmptyDict)
                 base_asset_config == DictGet(base, asset, <<"$base_default">>)
                 merged_asset_config == DictGet(merged.val, asset, <<"$merged_default">>)
                 effective_config == Copy(made, base_asset_config, <<"$effective_config">>)
             IN  DeepMergeObjects(effective_config, <<"$effective_config">>,
                                  merged_asset_config, <<"$merged">>)

\* The heap when calculate_commission_fees returns.
CommissionFeesObjects(objects, broker, principal_value, asset) ==
    IF RLe(principal_value, RZero) THEN objects
    ELSE EffectiveFeesObjects(objects, broker, asset)

\* The objects still referred to once the locals of a call are gone: the
\* schedule and what it leads to.
Collect(objects) ==
    LET Refs(p) == {objects[p][k] : k \in {x \in DOMAIN objects[p] : p = <<>> \/ x \in DictKeys}}
        one == Refs(<<>>)
        two == UNION {Refs(p) : p \in one}
        three == UNION {Refs(p) : p \in two}
    IN  [p \in {<<>>} \cup one \cup two \cup three |-> objects[p]]

\* CommissionCalculator(master_schedule) on the loaded schedule, no call yet.
HeapInit ==
    /\ initial_capital \in {RInt(c) : c \in Capitals}
    /\ broker_key = "base" /\ asset_type = "stocks"
    /\ master_schedule = MASTER_FEE_SCHEDULE
    /\ cash = initial_capital
    /\ shares = RZero
    /\ position = "NOT_HELD"
    /\ trades = <<>>
    /\ equity_curve = <<>>
    /\ final_equity = RZero
    /\ interval = 24
    /\ n = 0
    /\ equity = <<>>
    /\ current_entry_date = NoDate
    /\ i = 0
    /\ signal = None
    /\ price = NaN
    /\ pc = "idle"
    /\ trades_df = NoFrame
    /\ used = FALSE
    /\ call = NoCall
    /\ fee_result = NoResult
    /\ resolved = NoResult
    /\ metrics = NoMetrics
    /\ frame = NoFrameKept
    /\ strategy = NoStrategy
    /\ run_config = NoConfig
    /\ heap = Load(master_schedule)

HeapCalls ==
    [broker_key : Brokers, principal_value : Principals, trade_side : TradeSide,
     asset_type : AssetType, buy_datetime : {NoDate, isoformat(0)},
     sell_datetime : {NoDate}]

\* One more call of calculator.calculate_commission_fees; master_schedule
\* is the schedule as it reads after the call.
CalculateAgain ==
    /\ \E c \in HeapCalls :
       \E after \in {Collect(CommissionFeesObjects(heap, c.broker_key,
                                                   c.principal_value, c.asset_type))} :
          /\ call' = c
          /\ fee_result' = calculate_commission_fees(master_schedule, c.broker_key,
                               c.principal_value, c.trade_side, c.asset_type,
                               c.buy_datetime, c.sell_datetime)
          /\ heap' = after
          /\ master_schedule' = Deref(after, <<>>)
    /\ UNCHANGED <<initial_capital, broker_key, asset_type, used, cash,
                   shares, position, trades, equity_curve, final_equity, interval, n,
                   equity, current_entry_date, i, signal, price, pc, trades_df,
                   resolved, metrics, frame, strategy, run_config>>

HeapNext == CalculateAgain

HeapSpec == HeapInit /\ [][HeapNext]_vars


\* ---------------------------------------------------------------------
\* ConfigManager.recursive_add_config: the merge of a run configuration
\* with the configurations its base_id names.

\* The ids of the configuration file and an id the file does not hold.
ConfigIds == {"run_a", "run_b", "run_c"}
StartIds == ConfigIds \cup {"run_zz", None}

\* Every configuration defines a key of its own and the key "shared", both
\* with its own id as value; its base_id is absent or names any id.
ConfigOf(id, base) ==
    LET own == [key \in {id \o "_key", "shared"} |-> id]
    IN  IF base = None THEN own ELSE DictUpdate(own, [base_id |-> base])

ConfigDicts ==
    {[id \in ConfigIds |-> ConfigOf(id, parent[id])] :
        parent \in [ConfigIds -> ConfigIds \cup {"run_zz", None}]}

\* recursive_add_config(config_dict, config_id) entered, before the first
\* test of the while loop.
ConfigInit ==
    /\ initial_capital \in {RInt(c) : c \in Capitals}
    /\ broker_key = "base" /\ asset_type = "stocks"
    /\ master_schedule = MASTER_FEE_SCHEDULE
    /\ cash = initial_capital
    /\ shares = RZero
    /\ position = "NOT_HELD"
    /\ trades = <<>>
    /\ equity_curve = <<>>
    /\ final_equity = RZero
    /\ interval = 24
    /\ n = 0
    /\ equity = <<>>
    /\ current_entry_date = NoDate
    /\ i = 0
    /\ signal = None
    /\ price = NaN
    /\ pc = "idle"
    /\ trades_df = NoFrame
    /\ used = FALSE
    /\ call = NoCall
    /\ fee_result = NoResult
    /\ resolved = NoResult
    /\ metrics = NoMetrics
    /\ frame = NoFrameKept
    /\ strategy = NoStrategy
    /\ heap = NoHeap
    /\ \E d \in ConfigDicts, start \in StartIds :
          run_config = [pc |-> "loop", config_dict |-> d, start |-> start,
                        config_id |-> start, visited_ids |-> {},
                        merged_config |-> EmptyDict]

\* One pass of while config_id is not None: break on an id seen before,
\* ValueError on an id the file does not hold, else merge under what was
\* merged so far and read the next id from the merged dict.
AddConfigPass ==
    /\ run_config.pc = "loop"
    /\ run_config.config_id # None
    /\ \E id \in {run_config.config_id} :
          IF id \in run_config.visited_ids
          THEN run_config' = [run_config EXCEPT !.pc = "returned"]
          ELSE IF id \notin DOMAIN run_config.config_dict
          THEN run_config' = [run_config EXCEPT !.pc = "ValueError",
                                                !.visited_ids = @ \cup {id}]
          ELSE \E merged \in {DictUpdate(run_config.config_dict[id],
                                         run_config.merged_config)} :
                  run_config' = [run_config EXCEPT
                                    !.visited_ids = @ \cup {id},
                                    !.merged_config = merged,
                                    !.config_id = DictGet(merged, "base_id", None)]
    /\ UNCHANGED <<initial_capital, broker_key, asset_type, master_schedule, used, cash,
                   shares, position, trades, equity_curve, final_equity, interval, n,
                   equity, current_entry_date, i, signal, price, pc, trades_df, call,
                   fee_result, resolved, metrics, frame, strategy, heap>>

\* The loop condition fails: return merged_config.
AddConfigReturn ==
    /\ run_config.pc = "loop"
    /\ run_config.config_id = None
    /\ run_config' = [run_config EXCEPT !.pc = "returned"]
    /\ UNCHANGED <<initial_capital, broker_key, asset_type, master_schedule, used, cash,
                   shares, position, trades, equity_curve, final_equity, interval, n,
                   equity, current_entry_date, i, signal, price, pc, trades_df, call,
                   fee_result, resolved, metrics, frame, strategy, heap>>

ConfigNext == AddConfigPass \/ AddConfigReturn

ConfigSpec == ConfigInit /\ [][ConfigNext]_vars


\* ================================================================ claims
Last(ledger) == ledger[Len(ledger)]
IsOpen(rec) == "Exit_Date" \notin DOMAIN rec
IsClosed(rec) == "Exit_Date" \in DOMAIN rec

\* A step that processes bar i of the current run; signal' and price' are
\* the row of that bar.
BarStep == pc = "loop" /\ pc' = "loop" /\ i' = i + 1
\* The timestamp of the bar processed last.
LastBarDate == Index(interval, i - 1)
BarProcessed == pc = "loop" /\ i > 1

\* The valuation rule of the equity curve.
Valuation(c, s, pos, px) ==
    IF pos = "SELL" THEN RSub(c, RMul(RAbs(s), px)) ELSE RAdd(c, RMul(s, px))

\* C1: the equity recorded for a bar is the valuation rule applied to the
\* account state after the bar's signal was applied, at the bar's close.
C1_EquityPostTransition ==
    BarProcessed => equity[i - 1] = Valuation(cash, shares, position, price)

\* The four transitions of the position state machine.
Edges == {<<"NOT_HELD", "BUY_ENTRY", "BUY">>, <<"NOT_HELD", "SELL_ENTRY", "SELL">>,
          <<"BUY", "BUY_EXIT", "NOT_HELD">>, <<"SELL", "SELL_EXIT", "NOT_HELD">>}

\* C2: a run starts NOT_HELD at bar 1 (bar 0 is never processed), every
\* step of the loop consumes exactly one bar, and the position changes only
\* along the four edges, driven by the signal of that bar.
C2_PositionEdges ==
    [][/\ (pc # "loop" /\ pc' = "loop") => (position' = "NOT_HELD" /\ i' = 1)
       /\ (pc = "loop" /\ pc' = "loop") =>
            /\ i >= 1
            /\ i' = i + 1
            /\ signal' \in SIGNAL
            /\ position' # position => <<position, signal', position'>> \in Edges
       /\ pc' # "loop" => position' = position]_vars

\* C2 witness: after two bars the position has gone away from NOT_HELD and
\* back, leaving one closed trade.
C2_Witness ==
    /\ pc = "loop" /\ i = 3
    /\ position = "NOT_HELD"
    /\ Len(trades) = 1 /\ IsClosed(trades[1])

\* The (position, signal) pairs that have a transition.
Actionable == {<<e[1], e[2]>> : e \in Edges}

\* C3: a signal that has no transition from the current position leaves
\* cash, shares, position and the ledger unchanged, and the run goes on.
C3_OtherPairsNoOp ==
    [][(BarStep /\ <<position, signal'>> \notin Actionable)
        => (UNCHANGED <<cash, shares, position, trades>>)]_vars

\* C3 witness: a BUY_ENTRY arrived while a long trade opened on an earlier
\* bar was still held.
C3_Witness ==
    /\ BarProcessed
    /\ signal = "BUY_ENTRY" /\ position = "BUY"
    /\ Last(trades).Entry_Date < LastBarDate

\* C4: only the last record of the ledger can be open, and an exit signal
\* that finds no open trade changes neither the ledger nor cash.
C4_SingleOpenTrade ==
    /\ [](\A k \in 1..(Len(trades) - 1) : IsClosed(trades[k]))
    /\ [][(BarStep /\ signal' \in {"BUY_EXIT", "SELL_EXIT"}
                   /\ (trades = <<>> \/ IsClosed(Last(trades))))
           => (trades' = trades /\ cash' = cash)]_vars

\* C4 witness: a second BUY_EXIT arrived after the long trade was closed on
\* an earlier bar.
C4_Witness ==
    /\ BarProcessed
    /\ signal = "BUY_EXIT" /\ position = "NOT_HELD"
    /\ Len(trades) = 1 /\ trades[1].Type = "Long" /\ IsClosed(trades[1])
    /\ trades[1].Exit_Date < LastBarDate

\* The fee of a long entry made now with all the cash.
EntryFeeNow ==
    _get_trade_fees(broker_key, asset_type, cash, "BUY",
                    isoformat(Index(interval, i)), NoDate)

C6_LongEntryAbandoned ==
    [][(pc = "loop" /\ i < n /\ position = "NOT_HELD" /\ signal' = "BUY_ENTRY"
                /\ RLe(RSub(cash, EntryFeeNow), RZero))
        => (UNCHANGED <<cash, shares, position, trades>>
            /\ pc' = "loop" /\ i' = i + 1)]_vars

\* C6 witness: a BUY_ENTRY was processed with no cash left (after a losing
\* short trade) and nothing was bought.
C6_Witness ==
    /\ BarProcessed
    /\ signal = "BUY_ENTRY" /\ position = "NOT_HELD"
    /\ RLe(cash, RZero)
    /\ Len(trades) = 1 /\ IsClosed(trades[1])

\* C7: a SELL_ENTRY while NOT_HELD goes SHORT with shares = -(cash / price),
\* credits cash with principal - fee, and appends one open Short record.
C7_ShortEntry ==
    [][(BarStep /\ position = "NOT_HELD" /\ signal' = "SELL_ENTRY")
        => LET shares_to_short == RDiv(cash, price')
               principal == RMul(shares_to_short, price')
               fee == _get_trade_fees(broker_key, asset_type, principal, "SELL",
                                      NoDate, isoformat(Index(interval, i)))
           IN  /\ position' = "SELL"
               /\ shares' = RNeg(shares_to_short)
               /\ cash' = RAdd(cash, RSub(principal, fee))
               /\ Len(trades') = Len(trades) + 1
               /\ SubSeq(trades', 1, Len(trades)) = trades
               /\ IsOpen(Last(trades'))
               /\ Last(trades').Type = "Short"
               /\ Last(trades').Shares = shares_to_short
               /\ Last(trades').Fees_Entry = fee]_vars

\* C7 witness: a short entry with a fee was made on the last bar.
C7_Witness ==
    /\ BarProcessed
    /\ signal = "SELL_ENTRY" /\ position = "SELL"
    /\ Last(trades).Entry_Date = LastBarDate
    /\ Last(trades).Fees_Entry # RZero

\* The open record closed at the bar being processed, with exit fee `fee`.
ClosedNow(fee) ==
    /\ Len(trades') = Len(trades)
    /\ SubSeq(trades', 1, Len(trades) - 1) = SubSeq(trades, 1, Len(trades) - 1)
    /\ \A f \in DOMAIN Last(trades) : Last(trades')[f] = Last(trades)[f]
    /\ IsClosed(Last(trades'))
    /\ Last(trades').Exit_Date = Index(interval, i)
    /\ Last(trades').Exit_Price = price'
    /\ Last(trades').Fees_Exit = fee

\* C8: a BUY_EXIT while LONG with an open trade sells all shares: cash
\* grows by shares * price - fee (sell side, holding period from the open
\* trade's entry date), shares = 0, NOT_HELD, the record is closed in place.
C8_LongExit ==
    [][(BarStep /\ position = "BUY" /\ signal' = "BUY_EXIT"
                /\ trades # <<>> /\ IsOpen(Last(trades)))
        => LET principal == RMul(shares, price')
               fee == _get_trade_fees(broker_key, asset_type, principal, "SELL",
                                      isoformat(Last(trades).Entry_Date),
                                      isoformat(Index(interval, i)))
           IN  /\ position' = "NOT_HELD"
               /\ shares' = RZero
               /\ cash' = RAdd(cash, RSub(principal, fee))
               /\ ClosedNow(fee)]_vars

\* C8 witness: a long trade was closed on the last bar with an exit fee.
C8_Witness ==
    /\ BarProcessed
    /\ signal = "BUY_EXIT" /\ position = "NOT_HELD"
    /\ trades # <<>> /\ Last(trades).Type = "Long"
    /\ IsClosed(Last(trades)) /\ Last(trades).Exit_Date = LastBarDate
    /\ Last(trades).Fees_Exit # RZero

\* C9: a SELL_EXIT while SHORT with an open trade covers |shares|: cash
\* falls by |shares| * price + fee (buy side), shares = 0, NOT_HELD, the
\* record is closed in place.
C9_ShortExit ==
    [][(BarStep /\ position = "SELL" /\ signal' = "SELL_EXIT"
                /\ trades # <<>> /\ IsOpen(Last(trades)))
        => LET principal == RMul(RAbs(shares), price')
               fee == _get_trade_fees(broker_key, asset_type, principal, "BUY",
                                      isoformat(Last(trades).Entry_Date),
                                      isoformat(Index(interval, i)))
           IN  /\ position' = "NOT_HELD"
               /\ shares' = RZero
               /\ cash' = RSub(cash, RAdd(principal, fee))
               /\ ClosedNow(fee)]_vars

\* C9 witness: a short trade was covered on the last bar with an exit fee.
C9_Witness ==
    /\ BarProcessed
    /\ signal = "SELL_EXIT" /\ position = "NOT_HELD"
    /\ trades # <<>> /\ Last(trades).Type = "Short"
    /\ IsClosed(Last(trades)) /\ Last(trades).Exit_Date = LastBarDate
    /\ Last(trades).Fees_Exit # RZero

\* C10: right after a BUY_ENTRY fill cash is 0 and the equity recorded for
\* the entry bar is the cash before the entry minus the entry fee.
C10_EntryFeeInEquity ==
    [][(BarStep /\ position = "NOT_HELD" /\ position' = "BUY")
        => (cash' = RZero
            /\ equity'[i] = RSub(cash, Last(trades').Fees_Entry))]_vars

\* C11: the signed share count agrees with the position (0 when NOT_HELD,
\* positive when long, negative when short) and every trade record stores
\* a strictly positive share quantity.
C11_SharesAgreeWithPosition ==
    /\ (position = "NOT_HELD" => shares = RZero)
    /\ (position = "BUY" => RLt(RZero, shares))
    /\ (position = "SELL" => RLt(shares, RZero))
    /\ \A k \in 1..Len(trades) : RLt(RZero, trades[k].Shares)

\* Nothing has happened in the run so far: no position, no record, the
\* capital untouched and every bar processed valued at the capital.
Flat ==
    /\ position = "NOT_HELD" /\ trades = <<>> /\ cash = initial_capital
    /\ \A k \in 1..(i - 1) : equity[k] = initial_capital

\* C12: a run whose every signal is NO_ACTION ends with an equity curve of
\* one entry per bar from index 1 on, each equal to the initial capital, an
\* empty ledger and position NOT_HELD.  By induction over the bars: the
\* run starts flat, a NO_ACTION bar keeps it flat, and a flat run finishes
\* with the flat curve.
C12_AllNoAction ==
    /\ [][(pc # "loop" /\ pc' = "loop") => Flat']_vars
    /\ [][(BarStep /\ Flat /\ signal' = "NO_ACTION") => Flat']_vars
    /\ [][(pc = "loop" /\ pc' = "done" /\ Flat)
          => (/\ equity_curve' = [k \in 1..(n - 1) |->
                                    [idx |-> k, val |-> initial_capital]]
              /\ trades' = <<>>
              /\ position' = "NOT_HELD")]_vars

\* C12 witness: a run of at least three NO_ACTION-only bars has finished
\* with the flat curve.
C12_Witness ==
    /\ pc = "done" /\ n >= 4 /\ signal = "NO_ACTION" /\ trades = <<>>
    /\ Len(equity_curve) = n - 1
    /\ \A k \in 1..(n - 1) : equity_curve[k] = [idx |-> k, val |-> initial_capital]

\* The calculator cannot price any transaction of this account: the broker
\* is not in the schedule, the asset has no section or is not implemented,
\* or the schedule has no "base" fragment (the lookup raises).
FailingAccount ==
    \/ broker_key \notin DOMAIN master_schedule
    \/ asset_type # "stocks"
    \/ "base" \notin DOMAIN master_schedule

\* C13: when the fee calculation fails, the transaction is carried out with
\* a fee of 0 and the loop goes on to the next bar.
C13_FeeFailureZeroFee ==
    /\ [][(BarStep /\ FailingAccount)
          => /\ (position = "NOT_HELD" /\ signal' = "BUY_ENTRY" /\ RLt(RZero, cash))
                  => /\ position' = "BUY"
                     /\ shares' = RDiv(cash, price')
                     /\ cash' = RZero
                     /\ Len(trades') = Len(trades) + 1
                     /\ Last(trades').Fees_Entry = RZero
             /\ (position = "NOT_HELD" /\ signal' = "SELL_ENTRY")
                  => /\ position' = "SELL"
                     /\ cash' = RAdd(cash, RMul(RDiv(cash, price'), price'))
                     /\ Len(trades') = Len(trades) + 1
                     /\ Last(trades').Fees_Entry = RZero
             /\ (position = "BUY" /\ signal' = "BUY_EXIT"
                     /\ trades # <<>> /\ IsOpen(Last(trades)))
                  => /\ position' = "NOT_HELD"
                     /\ cash' = RAdd(cash, RMul(shares, price'))
                     /\ Last(trades').Fees_Exit = RZero
             /\ (position = "SELL" /\ signal' = "SELL_EXIT"
                     /\ trades # <<>> /\ IsOpen(Last(trades)))
                  => /\ position' = "NOT_HELD"
                     /\ cash' = RSub(cash, RMul(RAbs(shares), price'))
                     /\ Last(trades').Fees_Exit = RZero]_vars
    /\ [][(pc = "loop" /\ i < n) => (pc' = "loop" /\ i' = i + 1)]_vars

\* C13 witness: on a schedule whose lookup raises, a trade was entered and
\* closed with zero fees and a later bar was processed.
C13_Witness ==
    /\ BarProcessed /\ "base" \notin DOMAIN master_schedule
    /\ trades # <<>> /\ IsClosed(trades[1])
    /\ trades[1].Fees_Entry = RZero /\ trades[1].Fees_Exit = RZero
    /\ trades[1].Exit_Date < LastBarDate

\* The total fee of a stocks transaction at full precision: brokerage +
\* exchange charges + SEBI fee + stamp duty + GST + STT, nothing rounded.
UnroundedTotal(principal_value, trade_side, holding_type, rates) ==
    LET broker_rates == DictGet(rates, "broker", EmptyDict)
        regulatory_rates == DictGet(rates, "regulatory", EmptyDict)
        side == ToString(TradeSideValue(trade_side))
        uncapped == RMax(RMul(principal_value, DictGet(broker_rates, "rate_" \o side, RZero)),
                         DictGet(broker_rates, "const_" \o side, RZero))
        brokerage == IF ("cap_" \o side) \in DOMAIN broker_rates
                        /\ RLt(broker_rates["cap_" \o side], uncapped)
                     THEN broker_rates["cap_" \o side] ELSE uncapped
        etc_charges == RMul(principal_value, DictGet(regulatory_rates, "etc_rate", RZero))
        sebi_fee == RMul(principal_value, DictGet(regulatory_rates, "sebi_rate", RZero))
        stamp_duty == IF trade_side = "BUY"
                      THEN RMul(principal_value, DictGet(regulatory_rates, "stamp_duty_rate", RZero))
                      ELSE RZero
        gst_tax == RMul(RAdd(RAdd(brokerage, etc_charges), sebi_fee),
                        DictGet(regulatory_rates, "gst_rate", RZero))
        stt_tax == IF holding_type = "DELIVERY" /\ trade_side = "SELL"
                   THEN RMul(principal_value, DictGet(regulatory_rates, "stt_delivery", RZero))
                   ELSE IF holding_type = "INTRADAY"
                   THEN RMul(principal_value, DictGet(regulatory_rates, "stt_intraday", RZero))
                   ELSE RZero
    IN  RAdd(RAdd(RAdd(RAdd(RAdd(brokerage, etc_charges), sebi_fee), stamp_duty),
                  gst_tax), stt_tax)

\* The fee of a transaction of this account at full precision (0 when the
\* calculation fails).
FullPrecisionFee(principal_value, trade_side, buy_date, sell_date) ==
    IF FailingAccount \/ RLe(principal_value, RZero) THEN RZero
    ELSE UnroundedTotal(principal_value, trade_side,
                        _determine_holding_type(buy_date, sell_date),
                        _get_effective_fees(master_schedule, broker_key, asset_type).val)

\* C14: the fee taken from cash (or from the capital that buys the shares)
\* and stored in the trade record, on every entry and exit, is the total
\* fee at full precision.
C14_UnroundedFeeUsed ==
    [][BarStep =>
        LET now == isoformat(Index(interval, i))
        IN  /\ (position = "NOT_HELD" /\ position' = "BUY")
                => LET fee == FullPrecisionFee(cash, "BUY", now, NoDate)
                   IN  /\ Last(trades').Fees_Entry = fee
                       /\ shares' = RDiv(RSub(cash, fee), price')
            /\ (position = "NOT_HELD" /\ position' = "SELL")
                => LET fee == FullPrecisionFee(cash, "SELL", NoDate, now)
                   IN  /\ Last(trades').Fees_Entry = fee
                       /\ cash' = RAdd(cash, RSub(cash, fee))
            /\ (position = "BUY" /\ position' = "NOT_HELD")
                => LET principal == RMul(shares, price')
                       fee == FullPrecisionFee(principal, "SELL",
                                  isoformat(Last(trades).Entry_Date), now)
                   IN  /\ Last(trades').Fees_Exit = fee
                       /\ cash' = RAdd(cash, RSub(principal, fee))
            /\ (position = "SELL" /\ position' = "NOT_HELD")
                => LET principal == RMul(RAbs(shares), price')
                       fee == FullPrecisionFee(principal, "BUY",
                                  isoformat(Last(trades).Entry_Date), now)
                   IN  /\ Last(trades').Fees_Exit = fee
                       /\ cash' = RSub(cash, RAdd(principal, fee))]_vars

\* run() has returned.
Returned == pc \in {"done", "reported"}

\* C15: after run, final equity is the last value of the equity curve, or
\* the initial capital when the curve is empty, whatever the final position.
C15_FinalEquityIsLastCurveValue ==
    Returned =>
        final_equity = (IF equity_curve = <<>> THEN initial_capital
                        ELSE Last(equity_curve).val)

\* C15 witness: a run ended short with a final equity other than the
\* initial capital.
C15_Witness ==
    /\ pc = "done" /\ position = "SELL" /\ n >= 3
    /\ equity_curve # <<>> /\ final_equity = Last(equity_curve).val
    /\ final_equity # initial_capital

\* The closed records of the ledger, in order.
ClosedTrades == SelectSeq(trades, IsClosed)

\* C16: get_trades returns exactly the closed records of the run, one row
\* each, also when the run ends with its only or last trade open, with
\* Gross P/L = (exit - entry) * |shares| for Long and (entry - exit) *
\* |shares| for Short, Total Fees = entry fee + exit fee and Net P/L =
\* Gross P/L - Total Fees.
C16_GetTradesClosedRecords ==
    pc = "reported" =>
        /\ trades_df.raised = ""
        /\ Len(trades_df.rows) = Len(ClosedTrades)
        /\ \A k \in 1..Len(ClosedTrades) :
            LET rec == ClosedTrades[k]
                row == trades_df.rows[k]
                gross == IF rec.Type = "Long"
                         THEN RMul(RSub(rec.Exit_Price, rec.Entry_Price), RAbs(rec.Shares))
                         ELSE RMul(RSub(rec.Entry_Price, rec.Exit_Price), RAbs(rec.Shares))
                total == RAdd(rec.Fees_Entry, rec.Fees_Exit)
            IN  /\ \A f \in (DOMAIN rec) \ {"Shares"} : row[f] = rec[f]
                /\ row.Gross_PL = gross
                /\ row.Total_Fees = total
                /\ row.Net_PL = RSub(gross, total)

ExitFields == {"Exit_Date", "Exit_Price", "Fees_Exit"}

\* The record `new` is the open record `old` with the exit fields added.
ClosedFrom(old, new) ==
    /\ DOMAIN new = DOMAIN old \cup ExitFields
    /\ \A f \in DOMAIN old : new[f] = old[f]

\* C18: within a run a record is appended open on entry, gains its exit
\* fields in one step, and is never changed once it has them.
C18_RecordLifecycle ==
    [][~(pc # "loop" /\ pc' = "loop") =>
        /\ Len(trades') \in {Len(trades), Len(trades) + 1}
        /\ Len(trades') = Len(trades) + 1
              => (DOMAIN Last(trades') \cap ExitFields = {})
        /\ \A k \in 1..Len(trades) :
              IF IsClosed(trades[k])
              THEN trades'[k] = trades[k]
              ELSE trades'[k] = trades[k] \/ ClosedFrom(trades[k], trades'[k])]_vars

\* C18 witness: a record was closed and a later bar of the same run opened
\* the next trade.
C18_Witness ==
    /\ pc = "loop" /\ Len(trades) = 2
    /\ IsClosed(trades[1]) /\ IsOpen(trades[2])
    /\ trades[1].Exit_Date < trades[2].Entry_Date

\* C19: a call of run() on an instance that has run before starts from the
\* state a newly constructed instance starts from (cash = initial capital,
\* no shares, NOT_HELD, empty ledger, no results, the constructor's
\* arguments untouched), so the same input gives the same results.
C19_FreshStateEachRun ==
    [][(pc \in {"done", "reported"} /\ pc' = "loop") =>
        /\ cash' = initial_capital
        /\ shares' = RZero
        /\ position' = "NOT_HELD"
        /\ trades' = <<>>
        /\ equity_curve' = NoCurve
        /\ final_equity' = RZero
        /\ current_entry_date' = NoDate
        /\ equity' = [k \in 0..(n' - 1) |-> NaN]
        /\ i' = FirstBar
        /\ <<initial_capital', broker_key', asset_type', master_schedule'>>
              = <<initial_capital, broker_key, asset_type, master_schedule>>]_vars

\* C19 witness: an instance that had run before has finished another run
\* that traded.
C19_Witness ==
    /\ used /\ pc = "done" /\ n >= 3
    /\ Len(trades) = 1 /\ IsClosed(trades[1])

\* calculate_commission_fees has returned for the arguments in `call`.
Calculated == fee_result # NoResult

\* C20: calculate_commission_fees with principal_value <= 0 returns the
\* invalid-principal failure and nothing else (no fee field), whatever the
\* broker, the side and the asset type.
C20_NonPositivePrincipalRejected ==
    (Calculated /\ RLe(call.principal_value, RZero)) =>
        fee_result = [error |-> "Principal value must be positive."]

\* C20 witness: a principal of 0 was rejected for a broker and an asset the
\* schedule prices.
C20_Witness ==
    /\ Calculated /\ call.principal_value = RZero
    /\ call.broker_key = "zerodha" /\ call.asset_type = "stocks"
    /\ DOMAIN fee_result = {"error"}

\* The parent named by inherits_from, None when the fragment names none.
ParentOf(schedule, key) == DictGet(schedule[key], "inherits_from", None)

\* Some fragment on the inherits_from chain of `key` names a parent that the
\* schedule does not hold (within `fuel` links).
RECURSIVE DanglingParent(_, _, _)
DanglingParent(schedule, key, fuel) ==
    /\ fuel > 0
    /\ key \in DOMAIN schedule
    /\ ParentOf(schedule, key) # None
    /\ \/ ParentOf(schedule, key) \notin DOMAIN schedule
       \/ DanglingParent(schedule, ParentOf(schedule, key), fuel - 1)

\* The chain of `key` resolves: the broker and every parent are fragments.
ChainResolves(schedule, key) ==
    /\ key \in DOMAIN schedule
    /\ ~DanglingParent(schedule, key, Cardinality(DOMAIN schedule))

\* The asset config merged for (key, asset) on a chain that resolves.
MergedAssetConfig(schedule, key, asset) ==
    deep_merge(DictGet(schedule["base"], asset, EmptyDict),
               DictGet(get_merged_section(schedule, key, None, "inherits_from").val,
                       asset, EmptyDict))

\* Neither a non-empty broker section nor a non-empty regulatory section.
NeitherSection(config) == Falsy(config, "broker") /\ Falsy(config, "regulatory")

\* The call names a broker and an asset that the schedule resolves.
CallResolves ==
    /\ ChainResolves(master_schedule, call.broker_key)
    /\ ~NeitherSection(MergedAssetConfig(master_schedule, call.broker_key, call.asset_type))

PositivePrincipal == RLt(RZero, call.principal_value)

\* C21: on a schedule with its "base" fragment, a call with a positive
\* principal returns the schedule-not-found failure (a dict holding only an
\* error message: no exception, no fee field) whenever the broker key is not
\* in the schedule, a parent named by inherits_from is not in the schedule,
\* or the merged config of the asset has neither a non-empty broker section
\* nor a non-empty regulatory section.
C21_ScheduleNotFound ==
    (/\ Calculated /\ PositivePrincipal
     /\ "base" \in DOMAIN master_schedule
     /\ ~CallResolves) =>
        /\ DOMAIN fee_result = {"error"}
        /\ fee_result.error \in {"Broker key not found",
                                 "Asset type configuration not found"}

\* C21 witness: a broker whose inherits_from parent is not in the schedule
\* was answered with the failure, for an asset its own fragment configures.
C21_Witness ==
    /\ Calculated /\ PositivePrincipal
    /\ call.broker_key = "orphan" /\ call.asset_type = "stocks"
    /\ DOMAIN fee_result = {"error"}

\* The placeholder returned for an asset type without a fee model.
NotImplementedMarker(asset) == [asset |-> asset, error |-> "not yet implemented"]
NonStock == call.asset_type \in {"options", "currency", "crypto"}

\* C22 as stated: every call for OPTIONS, CURRENCY or CRYPTO with a positive
\* principal returns the not-implemented marker.
C22_NonStockNotImplemented ==
    (Calculated /\ PositivePrincipal /\ NonStock) =>
        fee_result = NotImplementedMarker(call.asset_type)

\* C22, amended: a call for OPTIONS, CURRENCY or CRYPTO with a positive
\* principal returns the not-implemented marker when the schedule resolves
\* the broker and configures the asset, and the schedule-not-found failure
\* otherwise; in neither case a fee total or an exception, and a result with
\* a fee total is a result for STOCKS.
C22_NonStockNeverPriced ==
    /\ (Calculated /\ PositivePrincipal /\ NonStock) =>
          /\ CallResolves => fee_result = NotImplementedMarker(call.asset_type)
          /\ ~CallResolves => DOMAIN fee_result = {"error"}
          /\ "total" \notin DOMAIN fee_result
          /\ "raised" \notin DOMAIN fee_result
    /\ (Calculated /\ "total" \in DOMAIN fee_result) => call.asset_type = "stocks"

\* C22 witness: an options call that the schedule resolves got the marker.
C22_Witness ==
    /\ Calculated /\ PositivePrincipal
    /\ call.broker_key = "zerodha" /\ call.asset_type = "options"
    /\ fee_result = NotImplementedMarker("options")

\* The call was priced: the result is a stocks fee breakdown.
Priced == Calculated /\ "total" \in DOMAIN fee_result

\* The broker section of the rates that the schedule resolves for the call.
CallBrokerRates ==
    DictGet(MergedAssetConfig(master_schedule, call.broker_key, call.asset_type),
            "broker", EmptyDict)

\* The schedule's key of a per-side rate: rate_buy, const_sell, ...
SideKey(name, side) == name \o (IF side = "BUY" THEN "_buy" ELSE "_sell")

\* max(principal * rate[side], const[side]), clamped to cap[side] if configured.
BrokerageOf(principal, side, broker_rates) ==
    LET uncapped == RMax(RMul(principal, DictGet(broker_rates, SideKey("rate", side), RZero)),
                         DictGet(broker_rates, SideKey("const", side), RZero))
    IN  IF SideKey("cap", side) \in DOMAIN broker_rates
           /\ RLt(broker_rates[SideKey("cap", side)], uncapped)
        THEN broker_rates[SideKey("cap", side)]
        ELSE uncapped

\* C23: the brokerage of a priced stocks transaction is
\* max(principal * rate[side], const[side]), lowered to cap[side] when a cap
\* is configured and exceeded, with the rate, const and cap the schedule
\* holds for the side of the transaction (shown to 2 decimals).
C23_BrokerageOfOwnSide ==
    Priced =>
        fee_result.brokerage
            = Round2(BrokerageOf(call.principal_value, call.trade_side, CallBrokerRates))

\* The regulatory section of the rates that the schedule resolves for the call.
CallRegulatoryRates ==
    DictGet(MergedAssetConfig(master_schedule, call.broker_key, call.asset_type),
            "regulatory", EmptyDict)

\* The STT rule, case by case.
SttOf(principal, side, holding, regulatory_rates) ==
    CASE holding = "UNKNOWN" -> RZero
      [] holding = "DELIVERY" /\ side = "SELL" ->
            RMul(principal, DictGet(regulatory_rates, "stt_delivery", RZero))
      [] holding = "DELIVERY" /\ side = "BUY" -> RZero
      [] holding = "INTRADAY" ->
            RMul(principal, DictGet(regulatory_rates, "stt_intraday", RZero))

\* C24: the STT of a priced stocks transaction is 0 for holding type UNKNOWN,
\* principal * stt_delivery for a DELIVERY sell, 0 for a DELIVERY buy, and
\* principal * stt_intraday for INTRADAY on either side (shown to 2 decimals,
\* with the rates the schedule resolves for the broker).
C24_SttByHoldingType ==
    Priced =>
        /\ fee_result.holding \in HoldingType
        /\ fee_result.stt
              = Round2(SttOf(call.principal_value, call.trade_side, fee_result.holding,
                             CallRegulatoryRates))

\* C24 witness: a delivery sell of 100 at stt_delivery 1/100 was charged an
\* STT of 1.
C24_Witness ==
    /\ Priced
    /\ fee_result.holding = "DELIVERY" /\ call.trade_side = "SELL"
    /\ call.principal_value = RInt(100) /\ call.broker_key = "base"
    /\ fee_result.stt = RInt(1)

\* What the calculator returns for the arguments of `call` with another
\* principal.
ResultFor(principal) ==
    calculate_commission_fees(master_schedule, call.broker_key, principal,
                              call.trade_side, call.asset_type,
                              call.buy_datetime, call.sell_datetime)

\* C25: with the broker, side, asset and timestamps (hence the holding type)
\* fixed and non-negative rates, the brokerage of a priced stocks transaction
\* is not negative, and no smaller positive principal has a greater total fee.
C25_FeeMonotoneInPrincipal ==
    Priced =>
        /\ RLe(RZero, fee_result.brokerage)
        /\ \A p \in Principals :
              (RLt(RZero, p) /\ RLe(p, call.principal_value)) =>
                  RLe(ResultFor(p).total, fee_result.total)

\* C25 witness: a sell of 200 whose brokerage was lowered to the cap of 1.25,
\* next to a sell of 100 charged 1 below the cap.
C25_Witness ==
    /\ Priced
    /\ call.broker_key = "flat" /\ call.trade_side = "SELL"
    /\ call.principal_value = RInt(200)
    /\ fee_result.brokerage = <<5, 4>>
    /\ ResultFor(RInt(100)).brokerage = RInt(1)
    /\ RLt(ResultFor(RInt(100)).total, fee_result.total)

\* A timestamp that is present and parses.
Parses(s) == s.kind = "iso"
\* Hours since the epoch of a timestamp that parses; a day is 24 of them.
HoursOf(s) == s.date * 24 + s.hour

\* The three cases of the holding classification, each stated on its own.
IsDelivery(entry, exit) ==
    /\ Parses(entry) /\ Parses(exit)
    /\ HoursOf(exit) - HoursOf(entry) >= 24
    /\ exit.date # entry.date
IsIntraday(entry, exit) ==
    /\ Parses(entry) /\ Parses(exit)
    /\ \/ exit.date = entry.date
       \/ HoursOf(exit) - HoursOf(entry) < 24
       \/ HoursOf(exit) <= HoursOf(entry)
IsUnknown(entry, exit) == ~Parses(entry) \/ ~Parses(exit)

\* C26: the holding type reported for a priced call is DELIVERY exactly when
\* the exit is at least 1 day after the entry and on another calendar date,
\* INTRADAY exactly when both parse and they share the date, or less than a
\* day elapsed, or exit <= entry, and UNKNOWN exactly when a timestamp is
\* absent or does not parse; exactly one of the three cases applies to every
\* pair of timestamps.
C26_HoldingClassification ==
    Priced =>
        /\ (fee_result.holding = "DELIVERY")
              <=> IsDelivery(call.buy_datetime, call.sell_datetime)
        /\ (fee_result.holding = "INTRADAY")
              <=> IsIntraday(call.buy_datetime, call.sell_datetime)
        /\ (fee_result.holding = "UNKNOWN")
              <=> IsUnknown(call.buy_datetime, call.sell_datetime)
        /\ fee_result.holding \in HoldingType

\* C26 witness: an exit 12 hours after the entry, on the next calendar date,
\* was classified INTRADAY.
C26_Witness ==
    /\ Priced
    /\ call.buy_datetime = isoformat(12) /\ call.sell_datetime = isoformat(24)
    /\ fee_result.holding = "INTRADAY"

\* The same call with timestamps that parse (a same-instant round trip).
WellTimed ==
    calculate_commission_fees(master_schedule, call.broker_key, call.principal_value,
                              call.trade_side, call.asset_type,
                              isoformat(0), isoformat(0))

\* The fee components that do not depend on the holding type.
OtherComponents(breakdown) ==
    <<breakdown.brokerage, breakdown.etc, breakdown.sebi, breakdown.stamp_duty,
      breakdown.gst>>

\* C27: a stocks call that the schedule resolves, with a positive principal
\* and an entry or exit timestamp that is missing or malformed, is priced
\* without an exception: the holding type is UNKNOWN, the STT is 0, and
\* brokerage, exchange charges, SEBI fee, stamp duty and GST are those of the
\* same call with well-formed timestamps.
C27_BadTimestampDegrades ==
    /\ (Calculated /\ IsUnknown(call.buy_datetime, call.sell_datetime)) =>
          "raised" \notin DOMAIN fee_result
    /\ (/\ Calculated /\ PositivePrincipal /\ call.asset_type = "stocks"
        /\ CallResolves
        /\ IsUnknown(call.buy_datetime, call.sell_datetime)) =>
          /\ Priced
          /\ fee_result.holding = "UNKNOWN"
          /\ fee_result.stt = RZero
          /\ OtherComponents(fee_result) = OtherComponents(WellTimed)

\* C27 witness: a call with a malformed entry timestamp and a well-formed
\* exit timestamp was priced with non-zero exchange charges and no STT,
\* where the well-timed call pays STT.
C27_Witness ==
    /\ Priced
    /\ call.buy_datetime = Malformed /\ Parses(call.sell_datetime)
    /\ call.broker_key = "base"
    /\ fee_result.holding = "UNKNOWN" /\ fee_result.stt = RZero
    /\ RLt(RZero, fee_result.etc)
    /\ RLt(RZero, WellTimed.stt)

\* _get_effective_fees has returned for the broker and asset of `call`.
Resolved == resolved # NoResult

\* The inherits_from chain of `key`, the root first and `key` last.
RECURSIVE BaseFirstChain(_, _, _)
BaseFirstChain(schedule, key, fuel) ==
    IF fuel = 0 \/ ParentOf(schedule, key) = None THEN <<key>>
    ELSE Append(BaseFirstChain(schedule, ParentOf(schedule, key), fuel - 1), key)

\* The top-level keys of the fragments of a chain.
ChainKeys(schedule, chain) == UNION {DOMAIN schedule[chain[k]] : k \in 1..Len(chain)}

\* Shallow merge along a base-first chain: each top-level key holds the whole
\* value of the last fragment of the chain that has the key; the
\* inherits_from key is dropped.
ShallowAlong(schedule, chain) ==
    [key \in ChainKeys(schedule, chain) \ {"inherits_from"} |->
        LET holders == {k \in 1..Len(chain) : key \in DOMAIN schedule[chain[k]]}
            last == CHOOSE k \in holders : \A other \in holders : other <= k
        IN  schedule[chain[last]][key]]

\* Deep merge of an asset section onto the asset config of the base: the
\* sections of both, and in each section the rate of the override where it
\* names one, the rate of the base elsewhere.
OntoBase(base_config, override) ==
    [section \in (DOMAIN base_config) \cup (DOMAIN override) |->
        LET below == DictGet(base_config, section, EmptyDict)
            above == DictGet(override, section, EmptyDict)
        IN  [rate \in (DOMAIN below) \cup (DOMAIN above) |->
                IF rate \in DOMAIN above THEN above[rate] ELSE below[rate]]]

\* The effective rates of (key, asset), as the resolution rule gives them.
EffectiveRates(schedule, key, asset) ==
    OntoBase(DictGet(schedule["base"], asset, EmptyDict),
             DictGet(ShallowAlong(schedule, BaseFirstChain(schedule, key,
                                                           Cardinality(DOMAIN schedule))),
                     asset, EmptyDict))

\* C28: for a broker whose chain resolves, the merged section is the shallow
\* merge of the fragments along its inherits_from chain, base first (a
\* descendant's section replaces the ancestor's section of the same key, and
\* inherits_from is removed); the effective rates are the broker's asset
\* section of that merge, deep-merged onto the asset config of the base
\* (sections merge rate by rate, the override's rate wins), whenever they
\* hold a non-empty broker or regulatory section.
C28_EffectiveRatesResolution ==
    (Resolved /\ "base" \in DOMAIN master_schedule
              /\ ChainResolves(master_schedule, call.broker_key)) =>
        /\ resolved.merged_rates
              = Ok(ShallowAlong(master_schedule,
                                BaseFirstChain(master_schedule, call.broker_key,
                                               Cardinality(DOMAIN master_schedule))))
        /\ "inherits_from" \notin DOMAIN resolved.merged_rates.val
        /\ ~NeitherSection(EffectiveRates(master_schedule, call.broker_key,
                                          call.asset_type)) =>
              resolved.effective_config
                  = Ok(EffectiveRates(master_schedule, call.broker_key, call.asset_type))

\* C28 witness: broker kite, two levels below base, resolved for stocks: its
\* own sell rate, the buy rate of base and not the one of its parent zerodha
\* (whose stocks section it replaces), the regulatory rates of base, and the
\* options section of zerodha kept in the merged section.
C28_Witness ==
    /\ Resolved /\ resolved.effective_config.ok
    /\ call.broker_key = "kite" /\ call.asset_type = "stocks"
    /\ resolved.effective_config.val.broker.rate_sell = <<1, 100>>
    /\ resolved.effective_config.val.broker.rate_buy = <<1, 200>>
    /\ resolved.effective_config.val.regulatory.stt_intraday = <<1, 400>>
    /\ resolved.merged_rates.val.options = MASTER_FEE_SCHEDULE.zerodha.options

\* The curve under analysis is a series with at least one point.
HasPoints == equity_curve # NoCurve /\ equity_curve # <<>>

\* The highest equity among bars 1..k.
RunningMaxAt(values, k) ==
    CHOOSE v \in {values[j] : j \in 1..k} : \A j \in 1..k : RLe(values[j], v)

\* (equity - running maximum) / running maximum * 100 at bar k.
DrawdownPctAt(values, k) ==
    RMul(RDiv(RSub(values[k], RunningMaxAt(values, k)), RunningMaxAt(values, k)),
         RInt(100))

\* C29: the max drawdown computed for an equity curve is 0 when the curve is
\* empty, and otherwise the least, over the bars, of
\* (equity - running maximum up to the bar) / running maximum * 100; it is
\* never positive, and it is -25 for the curve [100, 120, 90, 110].
C29_MaxDrawdown ==
    "max_drawdown" \in DOMAIN metrics =>
        /\ ~HasPoints => metrics.max_drawdown = RZero
        /\ HasPoints =>
              /\ \E k \in 1..Len(equity_curve) :
                    metrics.max_drawdown = DrawdownPctAt(Values(equity_curve), k)
              /\ \A k \in 1..Len(equity_curve) :
                    RLe(metrics.max_drawdown, DrawdownPctAt(Values(equity_curve), k))
        /\ RLe(metrics.max_drawdown, RZero)
        /\ (HasPoints /\ Values(equity_curve)
                            = <<RInt(100), RInt(120), RInt(90), RInt(110)>>) =>
              metrics.max_drawdown = RInt(-25)

\* C29 witness: the max drawdown of [100, 120, 90, 110] was computed as -25.
C29_Witness ==
    /\ HasPoints
    /\ Values(equity_curve) = <<RInt(100), RInt(120), RInt(90), RInt(110)>>
    /\ "max_drawdown" \in DOMAIN metrics
    /\ metrics.max_drawdown = RInt(-25)

\* The returns of the curve under analysis: one per point but the first.
ReturnCount == IF HasPoints THEN Len(equity_curve) - 1 ELSE 0
\* At least two returns, all equal: their standard deviation is zero.
ZeroDeviation ==
    /\ ReturnCount >= 2
    /\ \A k \in 1..ReturnCount :
          pct_change(Values(equity_curve))[k] = pct_change(Values(equity_curve))[1]

\* C30: the Sharpe ratio computed for an equity curve is exactly 0 (not NaN)
\* when the curve gives fewer than 2 returns (0, 1 or 2 points) or the
\* returns have zero standard deviation (a flat curve).
C30_SharpeZeroWhenDegenerate ==
    ("sharpe_ratio" \in DOMAIN metrics /\ (ReturnCount < 2 \/ ZeroDeviation)) =>
        metrics.sharpe_ratio = Exact(RZero)

\* The DataFrame of the long scenario: daily closes 100, 101, 102, 100.
LongLossFrame ==
    <<Row("NO_ACTION", 100), Row("BUY_ENTRY", 101),
      Row("NO_ACTION", 102), Row("BUY_EXIT", 100)>>
LongLossRun ==
    /\ frame = LongLossFrame /\ initial_capital = RInt(100000)
    /\ broker_key = "zerodha" /\ interval = 24

\* C31: the run on capital 100000, broker zerodha, signals [NO_ACTION,
\* BUY_ENTRY, NO_ACTION, BUY_EXIT] at daily closes [100, 101, 102, 100]
\* ends with a final equity below the capital, and get_trades reports
\* exactly one trade for it: Long, entry price 101, exit price 100, net P/L
\* (100 - 101) * shares minus the entry and exit fees, which is negative.
C31_LongLossScenario ==
    /\ (LongLossRun /\ pc \in {"done", "reported"}) =>
          RLt(final_equity, initial_capital)
    /\ (LongLossRun /\ pc = "reported") =>
          /\ trades_df.raised = ""
          /\ Len(trades_df.rows) = 1
          /\ trades_df.rows[1].Type = "Long"
          /\ trades_df.rows[1].Entry_Price = RInt(101)
          /\ trades_df.rows[1].Exit_Price = RInt(100)
          /\ trades_df.rows[1].Net_PL
                = RSub(RMul(RInt(100 - 101), trades_df.rows[1].Shares),
                       RAdd(trades_df.rows[1].Fees_Entry, trades_df.rows[1].Fees_Exit))
          /\ RLt(trades_df.rows[1].Net_PL, RZero)

\* C31 witness: the scenario was run and reported, with fees on both sides
\* and a delivery exit.
C31_Witness ==
    /\ LongLossRun /\ pc = "reported"
    /\ Len(trades_df.rows) = 1
    /\ RLt(RZero, trades_df.rows[1].Fees_Entry)
    /\ RLt(RZero, trades_df.rows[1].Fees_Exit)
    /\ trades_df.rows[1].Exit_Date - trades_df.rows[1].Entry_Date = 48

\* The DataFrame of the short scenario: entry at 100, exit at 90.
ShortGainFrame ==
    <<Row("NO_ACTION", 100), Row("SELL_ENTRY", 100), Row("SELL_EXIT", 90)>>
ShortGainRun ==
    /\ frame = ShortGainFrame /\ initial_capital = RInt(100000)
    /\ broker_key = "zerodha"

\* C32: in the run on capital 100000 with SELL_ENTRY at 100 then SELL_EXIT
\* at 90, the entry shorts 1000 shares and raises cash by 100000 minus the
\* entry fee, the exit lowers cash by 90000 plus the exit fee, and get_trades
\* reports one Short trade whose net P/L is 10000 minus the total fees,
\* which is positive.
C32_ShortGainScenario ==
    /\ (ShortGainRun /\ position = "SELL") =>
          /\ Len(trades) = 1
          /\ trades[1].Shares = RInt(1000)
          /\ shares = RInt(-1000)
          /\ cash = RSub(RAdd(initial_capital, RInt(100000)), trades[1].Fees_Entry)
    /\ (ShortGainRun /\ pc \in {"done", "reported"}) =>
          /\ Len(trades) = 1 /\ IsClosed(trades[1])
          /\ cash = RSub(RSub(RAdd(initial_capital, RInt(100000)), trades[1].Fees_Entry),
                         RAdd(RInt(90000), trades[1].Fees_Exit))
    /\ (ShortGainRun /\ pc = "reported") =>
          /\ trades_df.raised = ""
          /\ Len(trades_df.rows) = 1
          /\ trades_df.rows[1].Type = "Short"
          /\ trades_df.rows[1].Net_PL
                = RSub(RInt(10000), trades_df.rows[1].Total_Fees)
          /\ RLt(RZero, trades_df.rows[1].Net_PL)

\* C32 witness: the scenario was run and reported, with a fee on each side.
C32_Witness ==
    /\ ShortGainRun /\ pc = "reported"
    /\ Len(trades_df.rows) = 1
    /\ RLt(RZero, trades_df.rows[1].Fees_Entry)
    /\ RLt(RZero, trades_df.rows[1].Fees_Exit)
    /\ RLt(initial_capital, cash)

\* C33: in every state of a run, the position is BUY (long) or SELL (short)
\* exactly when the last record of the ledger is open, and then the record's
\* Type is Long for BUY and Short for SELL; so whenever an exit branch is
\* taken the 'no open trade' guard is false.
C33_PositionMatchesOpenRecord ==
    /\ (position \in {"BUY", "SELL"}) <=> (trades # <<>> /\ IsOpen(Last(trades)))
    /\ position = "BUY" => Last(trades).Type = "Long"
    /\ position = "SELL" => Last(trades).Type = "Short"
    /\ position # "NOT_HELD" => ~NoOpenTrade(trades)

\* C33 witness: a short position is held on the second record of the
\* ledger, after a long round trip.
C33_Witness ==
    /\ pc = "loop" /\ position = "SELL"
    /\ Len(trades) = 2
    /\ IsClosed(trades[1]) /\ trades[1].Type = "Long"
    /\ IsOpen(trades[2]) /\ trades[2].Type = "Short"

\* Sum of Net P/L, as get_trades computes it, over the closed records.
RECURSIVE NetPLOfClosed(_)
NetPLOfClosed(ledger) ==
    IF ledger = <<>> THEN RZero
    ELSE RAdd(IF IsClosed(Head(ledger)) THEN WithPL(Head(ledger)).Net_PL ELSE RZero,
              NetPLOfClosed(Tail(ledger)))

\* C34: whenever the position is NOT_HELD, cash is the initial capital plus
\* the sum of Net P/L over the closed records of the ledger.
C34_CashIsCapitalPlusNetPL ==
    (pc # "idle" /\ position = "NOT_HELD") =>
        cash = RAdd(initial_capital, NetPLOfClosed(trades))

\* C35: the ledger is chronological and non-overlapping: a closed record's
\* exit bar is strictly later than its entry bar, and every record's entry
\* bar is strictly later than the exit bar of the record before it, which
\* is closed.
C35_LedgerChronological ==
    \A k \in 1..Len(trades) :
        /\ IsClosed(trades[k]) => trades[k].Exit_Date > trades[k].Entry_Date
        /\ k > 1 => /\ IsClosed(trades[k - 1])
                    /\ trades[k].Entry_Date > trades[k - 1].Exit_Date

\* C35 witness: the ledger holds a closed round trip and a second record
\* entered on the bar processed last, later than the first record's exit.
C35_Witness ==
    /\ pc = "loop" /\ Len(trades) = 2
    /\ IsClosed(trades[1])
    /\ trades[1].Exit_Date > trades[1].Entry_Date
    /\ trades[2].Entry_Date = LastBarDate
    /\ trades[2].Entry_Date > trades[1].Exit_Date

\* The signals written so far, in bar order, without the untouched bars.
Emitted == SelectSeq(strategy.signals, LAMBDA s : s # Unsignalled)

\* The exit that closes an entry signal.
MatchingExit(entry) == IF entry = "BUY_ENTRY" THEN "BUY_EXIT" ELSE "SELL_EXIT"

\* C36: the signal series of _apply_four_state_strategy_logic is
\* well-formed: bar 0 carries no signal, the first signal is an entry, an
\* entry is followed by its matching exit and an exit by an entry, so the
\* signals strictly alternate between an entry and its matching exit.
C36_SignalsWellFormed ==
    strategy.pc # "idle" =>
        /\ strategy.len > 0 => Iloc(strategy.signals, 0) = Unsignalled
        /\ \A k \in 1..Len(Emitted) :
              IF k % 2 = 1
              THEN Emitted[k] \in {"BUY_ENTRY", "SELL_ENTRY"}
              ELSE Emitted[k] = MatchingExit(Emitted[k - 1])

\* C36 witness: the returned series holds a long round trip followed by a
\* short entry.
C36_Witness ==
    /\ strategy.pc = "done"
    /\ Emitted = <<"BUY_ENTRY", "BUY_EXIT", "SELL_ENTRY">>

\* The fragments met from `key` along the inherits_from pointers, `fuel` of
\* them at most, a fragment met again being listed again.
RECURSIVE Lineage(_, _, _)
Lineage(schedule, key, fuel) ==
    IF fuel = 0 \/ key \notin DOMAIN schedule THEN <<>>
    ELSE <<key>> \o (IF "inherits_from" \in DOMAIN schedule[key]
                     THEN Lineage(schedule, schedule[key].inherits_from, fuel - 1)
                     ELSE <<>>)

\* The chain of the called broker has more than max_depth fragments: it is
\* a ring or it is too long.
Unending == Len(Lineage(master_schedule, call.broker_key, max_depth + 1)) > max_depth

\* One of the first max_depth fragments of the chain was met before.
Ring ==
    LET line == Lineage(master_schedule, call.broker_key, max_depth)
    IN  \E j, k \in 1..Len(line) : j < k /\ line[j] = line[k]

\* What the ValueError of such a chain says.
UnendingError == IF Ring THEN "loop detected" ELSE "exceeded max depth"

\* C37: get_merged_section with an inheritance pointer ends on every
\* schedule: on a ring (A -> B -> A, or a fragment naming itself) and on a
\* chain of more than max_depth fragments it raises a ValueError, which
\* _get_effective_fees passes on and calculate_commission_fees returns as
\* an error result; a chain of max_depth fragments or fewer raises neither
\* of the two.
C37_UnendingChainRaises ==
    /\ resolved # NoResult =>
          IF Unending
          THEN /\ resolved.merged_rates = Err(UnendingError)
               /\ resolved.effective_config = Err(UnendingError)
          ELSE resolved.merged_rates.err \notin {"loop detected", "exceeded max depth"}
    /\ (fee_result # NoResult /\ Unending /\ PositivePrincipal)
          => fee_result = [error |-> UnendingError]

\* C37 witness: a call on the two-fragment ring came back as the error
\* result of a detected loop.
C37_Witness ==
    /\ call.broker_key = "ring_a"
    /\ fee_result = [error |-> "loop detected"]
    /\ resolved # NoResult /\ ~resolved.merged_rates.ok

\* C38: calculate_commission_fees leaves the master fee schedule unchanged:
\* after any sequence of calls every fragment and every nested dictionary
\* of the schedule reads as it was loaded, the inherits_from keys included,
\* and no object of the schedule was written to or replaced.
C38_ScheduleUnchanged ==
    call # NoCall =>
        /\ master_schedule = MASTER_FEE_SCHEDULE
        /\ heap = Load(MASTER_FEE_SCHEDULE)

\* C38 witness: a call for a broker that inherits and overrides rates came
\* back with the fees of a stock trade.
C38_Witness ==
    /\ call # NoCall /\ call.broker_key = "kite" /\ call.asset_type = "stocks"
    /\ "total" \in DOMAIN fee_result
    /\ heap = Load(MASTER_FEE_SCHEDULE)

\* The ids met from `id` along the base_id pointers of the file, `fuel` of
\* them at most; an id the file does not hold ends the list and is listed.
RECURSIVE BaseIdChain(_, _, _)
BaseIdChain(config_dict, id, fuel) ==
    IF fuel = 0 \/ id = None THEN <<>>
    ELSE IF id \notin DOMAIN config_dict THEN <<id>>
    ELSE <<id>> \o BaseIdChain(config_dict, DictGet(config_dict[id], "base_id", None),
                               fuel - 1)

\* The chain of the call, one id further than the file has ids.
CallChain ==
    BaseIdChain(run_config.config_dict, run_config.start,
                Cardinality(DOMAIN run_config.config_dict) + 1)

\* The chain ends at a configuration without base_id: no id is missing and
\* none comes back.
ProperChain ==
    /\ \A k \in 1..Len(CallChain) : CallChain[k] \in DOMAIN run_config.config_dict
    /\ \A j, k \in 1..Len(CallChain) : j # k => CallChain[j] # CallChain[k]

MissingOnChain ==
    \E k \in 1..Len(CallChain) : CallChain[k] \notin DOMAIN run_config.config_dict

CircularChain ==
    \E j, k \in 1..Len(CallChain) : j # k /\ CallChain[j] = CallChain[k]

\* C39: recursive_add_config merges the whole base_id chain of the starting
\* config: on a chain of any depth the result holds every key defined by a
\* config of the chain, with the value of the most specific config that
\* defines it.
C39_WholeChainMerged ==
    (run_config.pc = "returned" /\ ProperChain) =>
        \A k \in 1..Len(CallChain) :
            \A key \in DOMAIN run_config.config_dict[CallChain[k]] :
                /\ key \in DOMAIN run_config.merged_config
                /\ (\A j \in 1..(k - 1) :
                        key \notin DOMAIN run_config.config_dict[CallChain[j]])
                    => run_config.merged_config[key]
                         = run_config.config_dict[CallChain[k]][key]

\* C40: recursive_add_config raises ValueError when a base_id of the chain
\* names an id missing from the configuration and when the chain is
\* circular; it returns only on a chain that is neither.
C40_RaisesOnMissingOrCircular ==
    /\ run_config.pc = "returned" => ~MissingOnChain /\ ~CircularChain
    /\ run_config.pc = "ValueError" => MissingOnChain \/ CircularChain


====
